---- MODULE Spec2Model ----
(***************************************************************************)
(* Verification model of the MDF substitution assistant:                   *)
(*   - the tool-orchestration loop (SubstitutionOrchestrator),             *)
(*   - the catalog store paths for direct equivalences,                    *)
(*   - the text matcher's exact-code strategy,                             *)
(*   - the Phase-1 attribute score of the smart-alternatives ranker.       *)
(***************************************************************************)
EXTENDS Integers, Sequences, FiniteSets, TLC

VARIABLES
    \* ---- orchestrator (one SubstitutionOrchestrator object and its caller)
    pc,             \* "idle" | "loop" | "dispatch"
    pendingImage,   \* self._pending_image_b64 ("none" = None)
    turnImage,      \* image_b64 argument of the running process_message call
    staleImage,     \* what self._pending_image_b64 held when the call began (ghost)
    inputHistory,   \* conversation_history as it was passed in (ghost)
    history,        \* conversation_history (the list the turn appends to)
    iteration,      \* local variable iteration
    engineCalls,    \* number of self.client.chat calls made in the turn (ghost)
    finalSeen,      \* number of engine calls made when the first tool-free response came (0 = none) (ghost)
    response,       \* response.content of the engine call being processed
    blockIdx,       \* position of the for loop over tool_use_blocks
    toolResults,    \* local list tool_results
    result,         \* what the last process_message call produced
    dispatchLog,    \* per dispatched call of the round: what the handler did (ghost)
    nextId,         \* next tool_use id the engine hands out
    \* ---- catalog store (the SQLite tables behind src/database)
    products,       \* table products: set of rows (every row has is_active = 1)
    nextProductId,  \* AUTOINCREMENT counter of products.id
    direct_equivalences, \* table direct_equivalences: set of rows (without the surrogate id)
    preloaded,      \* import_log holds a 'success' row of PRELOAD_SIMILARITY_TABLE
    lastInsert,     \* order of the two ids handed to the last equivalence INSERT (ghost)
    stock,          \* table stock, in rowid order
    \* ---- text matcher (src/services/product_service.py)
    fuzzy_cache,    \* module global _fuzzy_cache (None or the list)
    searchQuery,    \* argument of the last search call (ghost)
    searchResult,   \* what the last search call produced (ghost)
    \* ---- Phase-1 attribute ranker (src/services/smart_alternatives_service.py)
    attrOriginal,   \* the original product of the last _attribute_prefilter call (ghost)
    attrScored,     \* what the last _attribute_prefilter call returned (ghost)
    \* ---- attribute ranker with its cache (find_smart_alternatives)
    similarity_cache, \* table similarity_cache: set of rows
    nextCacheId,    \* AUTOINCREMENT counter of similarity_cache.id
    smartLast,      \* the last find_smart_alternatives call and what it produced (ghost)
    dataChanged,    \* a store mutation happened between the last two calls (ghost)
    \* ---- further resolvers, each with the record of its last call (ghost)
    equivLast,      \* the last find_direct_equivalents call and what it returned
    webLast,        \* the last search_web_and_cross_reference call and what it returned
    tapeLast,       \* the last _decorate_tapes call and what it returned
    availLast,      \* the last check_availability call and what it returned
    \* ---- stock writes, edging tapes, sessions sharing the fuzzy cache
    stockWrites,    \* the quantity last written for each (product, location) (ghost)
    stockPreloaded, \* import_log holds a PRELOAD_STOCK entry (is_stock_preloaded)
    tapeStore,      \* tables edging_tapes, tape_product_compatibility, tape_equivalences
    tapeFind,       \* the last tape lookup and what it returned (ghost)
    sess            \* the searches of the sessions of the process, each with its position

orchVars == <<pc, pendingImage, turnImage, staleImage, inputHistory, history, iteration,
              engineCalls, finalSeen, response, blockIdx, toolResults, result,
              dispatchLog, nextId>>

storeVars == <<products, nextProductId, direct_equivalences, preloaded, lastInsert, stock>>

searchVars == <<fuzzy_cache, searchQuery, searchResult>>

attrVars == <<attrOriginal, attrScored>>

rankVars == <<similarity_cache, nextCacheId, smartLast, dataChanged>>

lateVars == <<stockWrites, stockPreloaded, tapeStore, tapeFind, sess>>

moreVars == <<equivLast, webLast, tapeLast, availLast, lateVars>>

restVars == <<rankVars, moreVars>>

vars == <<orchVars, storeVars, searchVars, attrVars, restVars>>

----------------------------------------------------------------------------
(* Bounds of the exploration *)

\* The engine chooses its tool batch freely in the first MaxFreeRounds
\* responses of a turn; afterwards it behaves as the runaway stub (or ends).
MaxFreeRounds == 1

\* A final response holds at most MaxTextBlocks text blocks.
MaxTextBlocks == 2

(* Program constants *)
max_iterations == 8

\* _fuzzy_cache is None.
NoCache == [built |-> FALSE, items |-> <<>>]

\* The operation has not been called.
NotCalled == [called |-> FALSE]

\* fetchone() found no row.
NoRow == [none |-> TRUE]

FallbackText == <<"Desculpe, nao consegui completar a analise.">>

----------------------------------------------------------------------------
(* Tool registry *)

\* Keys of self.tool_handlers.
tool_handlers ==
    {"search_product", "check_stock", "find_direct_equivalents",
     "find_smart_alternatives", "search_web_mdf",
     "find_compatible_edging_tape", "register_feedback",
     "generate_client_text", "search_by_image"}

\* Keyword parameters each handler method accepts (its Python signature).
HandlerParams(name) ==
    CASE name = "search_product" -> {"query"}
      [] name = "check_stock" -> {"product_id"}
      [] name = "find_direct_equivalents" -> {"product_id", "require_same_thickness"}
      [] name = "find_smart_alternatives" -> {"product_id", "max_results"}
      [] name = "search_web_mdf" -> {"product_name", "brand"}
      [] name = "find_compatible_edging_tape" -> {"product_id"}
      [] name = "register_feedback" ->
            {"original_product_id", "suggested_product_id", "accepted",
             "rating", "comment"}
      [] name = "generate_client_text" ->
            {"original_product_id", "suggested_product_id", "suggestion_type"}
      [] name = "search_by_image" -> {"max_results"}
      [] OTHER -> {}

\* Parameters of each handler method that have no default value.
HandlerRequired(name) ==
    CASE name = "search_product" -> {"query"}
      [] name = "check_stock" -> {"product_id"}
      [] name = "find_direct_equivalents" -> {"product_id"}
      [] name = "find_smart_alternatives" -> {"product_id"}
      [] name = "search_web_mdf" -> {"product_name"}
      [] name = "find_compatible_edging_tape" -> {"product_id"}
      [] name = "register_feedback" ->
            {"original_product_id", "suggested_product_id", "accepted"}
      [] name = "generate_client_text" ->
            {"original_product_id", "suggested_product_id", "suggestion_type"}
      [] name = "search_by_image" -> {}
      [] OTHER -> {}

\* What the body of a handler can do once Python has bound the arguments.
\*   "ok"                the resolver returned its payload
\*   "no_image"          search_by_image returned its "no image" error payload
\*   "arg_mismatch"      a TypeError (unexpected keyword argument) was raised
\*   "missing_operation" an AttributeError (the called function does not exist)
\*   "resolver_error"    any other exception raised inside the resolver
HandlerBody(name, img) ==
    CASE name = "search_product" ->
            \* product_service.search: [] when nothing matches; every hit goes
            \* through _enrich_with_stock, which calls
            \* queries.get_stock_by_product_id(id, location=...) : TypeError
            {"ok", "arg_mismatch"}
      [] name = "check_stock" ->
            \* stock_service.check_availability calls
            \* queries.get_product_with_stock(id, location=...) : TypeError
            {"arg_mismatch"}
      [] name = "find_direct_equivalents" -> {"ok", "resolver_error"}
      [] name = "find_smart_alternatives" -> {"ok", "resolver_error"}
      [] name = "search_web_mdf" ->
            \* web_search_service has no search_mdf_references
            {"missing_operation"}
      [] name = "find_compatible_edging_tape" ->
            \* edging_tape_service.find_compatible: recorded tapes, or
            \* queries.search_tapes_by_name, which does not exist
            {"ok", "missing_operation"}
      [] name = "register_feedback" -> {"ok", "resolver_error"}
      [] name = "generate_client_text" -> {"ok", "missing_operation"}
      [] name = "search_by_image" ->
            IF img = "none" THEN {"no_image"} ELSE {"ok", "resolver_error"}
      [] OTHER -> {}

\* Lines 120-127: the payload kinds one tool call of a round can yield.
DispatchOutcomes(name, input, img) ==
    IF name \notin tool_handlers THEN {"unknown_tool"}
    ELSE IF ~(input \subseteq HandlerParams(name))
            \/ ~(HandlerRequired(name) \subseteq input) THEN {"arg_mismatch"}
    ELSE HandlerBody(name, img)

\* Payload kinds that stand for an exception turned into {"error": str(e)}.
RaisedKinds == {"arg_mismatch", "missing_operation", "resolver_error"}

\* Whether the search_by_image handler went on to the catalog and the vision
\* engine (lines 271-275), and with which image.
ImageConsumed(name, kind, img) ==
    IF name = "search_by_image" /\ kind \in {"ok", "resolver_error"}
    THEN img ELSE "none"

----------------------------------------------------------------------------
(* Messages and content blocks *)

Block(t, txt, i, n, inp, p) ==
    [type |-> t, text |-> txt, id |-> i, name |-> n, input |-> inp, payload |-> p]
TextBlock(txt) == Block("text", txt, 0, "", {}, "")
ImageBlock(img) == Block("image", <<img>>, 0, "", {}, "")
ToolUse(i, n, inp) == Block("tool_use", <<>>, i, n, inp, "")
ToolResult(i, p) == Block("tool_result", <<>>, i, "", {}, p)

Message(r, c) == [role |-> r, content |-> c]

\* Lines 59-75: the content of the user message (text, or image + text).
UserContent(img) ==
    IF img # "none" THEN <<ImageBlock(img), TextBlock(<<"q">>)>>
    ELSE <<TextBlock(<<"q">>)>>

\* Line 92: tool_use_blocks = [b for b in response.content if b.type == "tool_use"]
RECURSIVE SelectType(_, _)
SelectType(content, t) ==
    IF content = <<>> THEN <<>>
    ELSE IF Head(content).type = t
         THEN <<Head(content)>> \o SelectType(Tail(content), t)
         ELSE SelectType(Tail(content), t)

tool_use_blocks(content) == SelectType(content, "tool_use")

\* Lines 96-97: "".join(b.text for b in response.content if b.type == "text")
RECURSIVE JoinText(_)
JoinText(blocks) ==
    IF blocks = <<>> THEN <<>>
    ELSE Head(blocks).text \o JoinText(Tail(blocks))

text_of(content) == JoinText(SelectType(content, "text"))

IsPrefix(s, t) == Len(s) <= Len(t) /\ SubSeq(t, 1, Len(s)) = s

----------------------------------------------------------------------------
(* The reasoning engine (external): what client.chat can return *)

\* input_schema.required of each entry of TOOLS.
ToolsRequired(name) ==
    CASE name = "search_product" -> {"query"}
      [] name = "check_stock" -> {"product_id"}
      [] name = "find_direct_equivalents" -> {"product_id"}
      [] name = "find_smart_alternatives" -> {"product_id"}
      [] name = "search_web_mdf" -> {"product_name"}
      [] name = "find_compatible_edging_tape" -> {"product_id"}
      [] name = "register_feedback" ->
            {"original_product_id", "suggested_product_id", "accepted"}
      [] name = "generate_client_text" ->
            {"original_product_id", "suggested_product_id", "suggestion_type"}
      [] name = "search_by_image" -> {}
      [] OTHER -> {}

\* input_schema.properties of each entry of TOOLS.
ToolsProperties(name) ==
    CASE name = "search_product" -> {"query"}
      [] name = "check_stock" -> {"product_id"}
      [] name = "find_direct_equivalents" -> {"product_id", "require_same_thickness"}
      [] name = "find_smart_alternatives" -> {"product_id", "max_results"}
      [] name = "search_web_mdf" -> {"product_name", "brand"}
      [] name = "find_compatible_edging_tape" -> {"product_id"}
      [] name = "register_feedback" ->
            {"original_product_id", "suggested_product_id", "accepted",
             "rating", "comment"}
      [] name = "generate_client_text" ->
            {"original_product_id", "suggested_product_id", "suggestion_type"}
      [] name = "search_by_image" -> {"max_results"}
      [] OTHER -> {}

\* The registry surface of the design (names, required and optional inputs):
\* the one input TOOLS does not list is check_stock's include_other_locations.
SurfaceOptional(name) ==
    IF name = "check_stock" THEN {"include_other_locations"}
    ELSE ToolsProperties(name) \ ToolsRequired(name)

Call(n, inp) == [name |-> n, input |-> inp]

\* Tool calls the engine may request: each registry operation with its
\* required inputs, with all its inputs, one unregistered name, and one
\* registry operation without its required input.
Calls ==
    {Call(n, ToolsRequired(n)) : n \in tool_handlers}
    \cup {Call(n, ToolsRequired(n) \cup SurfaceOptional(n)) : n \in tool_handlers}
    \cup {Call("unknown_tool", {}), Call("search_product", {})}

\* Calls that are combined into rounds of two tool calls.
PairCalls ==
    {Call("check_stock", {"product_id"}),
     Call("find_direct_equivalents", {"product_id"}),
     Call("search_by_image", {})}

\* A batch: whether the response starts with a text block, and its calls.
Batch(lead, calls) == [lead |-> lead, calls |-> calls]

FreeBatches ==
    {Batch(FALSE, <<c>>) : c \in Calls}
    \cup {Batch(FALSE, <<c, d>>) : c \in PairCalls, d \in PairCalls}

\* The runaway engine: every response is some text and the same tool call.
StubBatch == Batch(TRUE, <<Call("check_stock", {"product_id"})>>)

Words == <<"a", "b", "c", "d">>

\* Responses without a tool call: 0..MaxTextBlocks text blocks.
FinalResponses ==
    {[i \in 1..n |-> TextBlock(<<Words[i]>>)] : n \in 0..MaxTextBlocks}

\* response.content of a tool-call response, ids handed out from `first`.
BatchContent(b, first) ==
    (IF b.lead THEN <<TextBlock(<<"a">>)>> ELSE <<>>)
    \o [i \in 1..Len(b.calls) |->
            ToolUse(first + i - 1, b.calls[i].name, b.calls[i].input)]

----------------------------------------------------------------------------
(* The caller: histories a turn may be started on *)

H_final == <<Message("user", UserContent("none")),
             Message("assistant", <<TextBlock(<<"a">>)>>)>>
H_tools == <<Message("user", UserContent("img1")),
             Message("assistant", <<ToolUse(101, "search_product", {"query"})>>),
             Message("user", <<ToolResult(101, "ok")>>),
             Message("assistant", <<TextBlock(<<"b">>)>>)>>

\* What an engine exception on the first call of a turn leaves behind.
H_raised == <<Message("user", UserContent("none"))>>

InputHistories == {<<>>, H_final, H_tools, H_raised}

Images == {"img1"}

NoResult == [status |-> "none", text |-> <<>>, history |-> <<>>]

----------------------------------------------------------------------------
(* SubstitutionOrchestrator.process_message *)

\* Mutant of StoredImage: the image is stored only when one is attached.
StoredImageIfGiven(img, old) == IF img # "none" THEN img ELSE old

\* Lines 55-56: the image the object holds once the turn has started.
StoredImage(img, old) == img

\* Mutant of WithUserMessage: the turn starts a fresh list.
WithUserMessageFresh(h, img) == <<Message("user", UserContent(img))>>

\* Line 77: conversation_history.append({"role": "user", "content": content})
WithUserMessage(h, img) == Append(h, Message("user", UserContent(img)))

\* Mutant of LoopContinues: off by one.
LoopContinuesOffByOne(it) == it <= max_iterations

\* Line 82: while iteration < max_iterations
LoopContinues(it) == it < max_iterations

\* Mutant of ToolResultFor: every result carries the id of the round's first call.
ToolResultForFirstId(block, kind) ==
    ToolResult(tool_use_blocks(response)[1].id, kind)

\* Lines 129-137: the tool_result entry of one tool call.
ToolResultFor(block, kind) == ToolResult(block.id, kind)

\* Lines 40-80: the call process_message(user_message, h, img) up to the loop.
StartTurn(img, h) ==
    /\ pc = "idle"
    /\ pendingImage' = StoredImage(img, pendingImage)
    /\ turnImage' = img
    /\ staleImage' = pendingImage
    /\ inputHistory' = h
    /\ history' = WithUserMessage(h, img)
    /\ iteration' = 0
    /\ engineCalls' = 0
    /\ finalSeen' = 0
    /\ response' = <<>>
    /\ blockIdx' = 0
    /\ toolResults' = <<>>
    /\ dispatchLog' = <<>>
    /\ result' = NoResult
    /\ nextId' = 1
    /\ pc' = "loop"

\* Mutant of EngineFinal: the tool-free response is appended but the loop
\* goes on (the return is missing).
EngineFinalNoReturn(content) ==
    /\ pc = "loop"
    /\ LoopContinues(iteration)
    /\ iteration' = iteration + 1
    /\ engineCalls' = engineCalls + 1
    /\ tool_use_blocks(content) = <<>>
    /\ finalSeen' = IF finalSeen = 0 THEN engineCalls + 1 ELSE finalSeen
    /\ response' = content
    /\ history' = Append(history, Message("assistant", content))
    /\ UNCHANGED <<pc, pendingImage, turnImage, staleImage, inputHistory,
                   blockIdx, toolResults, dispatchLog, nextId, result>>

\* Lines 82-104: an engine call answered without a tool call ends the turn.
EngineFinal(content) ==
    /\ pc = "loop"
    /\ LoopContinues(iteration)
    /\ iteration' = iteration + 1
    /\ engineCalls' = engineCalls + 1
    /\ tool_use_blocks(content) = <<>>
    /\ finalSeen' = IF finalSeen = 0 THEN engineCalls + 1 ELSE finalSeen
    /\ response' = content
    /\ history' = Append(history, Message("assistant", content))
    /\ pendingImage' = "none"
    /\ result' = [status |-> "returned", text |-> text_of(content),
                  history |-> history']
    /\ pc' = "idle"
    /\ UNCHANGED <<turnImage, staleImage, inputHistory, blockIdx, toolResults,
                   dispatchLog, nextId>>

\* Lines 82-111: an engine call answered with tool calls opens a round.
EngineTools(b) ==
    /\ pc = "loop"
    /\ LoopContinues(iteration)
    /\ b \in (IF engineCalls < MaxFreeRounds THEN FreeBatches \cup {StubBatch}
              ELSE {StubBatch})
    /\ iteration' = iteration + 1
    /\ engineCalls' = engineCalls + 1
    /\ response' = BatchContent(b, nextId)
    /\ nextId' = nextId + Len(b.calls)
    /\ history' = Append(history, Message("assistant", response'))
    /\ toolResults' = <<>>
    /\ dispatchLog' = <<>>
    /\ blockIdx' = 1
    /\ pc' = "dispatch"
    /\ UNCHANGED <<pendingImage, turnImage, staleImage, inputHistory, finalSeen, result>>

\* Lines 85-89: client.chat raises; process_message has no handler for it,
\* so the exception leaves the call (the list passed in keeps what was
\* appended, the pending image is not cleared).
EngineRaise ==
    /\ pc = "loop"
    /\ LoopContinues(iteration)
    /\ iteration' = iteration + 1
    /\ engineCalls' = engineCalls + 1
    /\ result' = [status |-> "raised", text |-> <<>>, history |-> <<>>]
    /\ pc' = "idle"
    /\ UNCHANGED <<pendingImage, turnImage, staleImage, inputHistory, history, finalSeen,
                   response, blockIdx, toolResults, dispatchLog, nextId>>

\* Mutant of DispatchTool: the handler call is not wrapped in try/except, so
\* an exception of a handler leaves process_message.
DispatchToolNoCatch(kind) ==
    /\ pc = "dispatch"
    /\ blockIdx <= Len(tool_use_blocks(response))
    /\ LET block == tool_use_blocks(response)[blockIdx] IN
        /\ kind \in DispatchOutcomes(block.name, block.input, pendingImage)
        /\ dispatchLog' = Append(dispatchLog,
              [id |-> block.id, name |-> block.name, input |-> block.input,
               raised |-> kind \in RaisedKinds, kind |-> kind,
               image |-> ImageConsumed(block.name, kind, pendingImage)])
        /\ IF kind \in RaisedKinds
           THEN /\ pc' = "idle"
                /\ result' = [status |-> "raised", text |-> <<>>, history |-> <<>>]
                /\ UNCHANGED <<toolResults, blockIdx>>
           ELSE /\ toolResults' = Append(toolResults, ToolResultFor(block, kind))
                /\ blockIdx' = blockIdx + 1
                /\ UNCHANGED <<pc, result>>
    /\ UNCHANGED <<pendingImage, turnImage, staleImage, inputHistory, history,
                   iteration, engineCalls, finalSeen, response, nextId>>

\* Lines 112-137: one pass of the for loop over tool_use_blocks.
DispatchTool(kind) ==
    /\ pc = "dispatch"
    /\ blockIdx <= Len(tool_use_blocks(response))
    /\ LET block == tool_use_blocks(response)[blockIdx] IN
        /\ kind \in DispatchOutcomes(block.name, block.input, pendingImage)
        /\ toolResults' = Append(toolResults, ToolResultFor(block, kind))
        /\ dispatchLog' = Append(dispatchLog,
              [id |-> block.id, name |-> block.name, input |-> block.input,
               raised |-> kind \in RaisedKinds, kind |-> kind,
               image |-> ImageConsumed(block.name, kind, pendingImage)])
    /\ blockIdx' = blockIdx + 1
    /\ UNCHANGED <<pc, pendingImage, turnImage, staleImage, inputHistory, history,
                   iteration, engineCalls, finalSeen, response, result, nextId>>

\* Line 139: conversation_history.append({"role": "user", "content": tool_results})
FinishRound ==
    /\ pc = "dispatch"
    /\ blockIdx > Len(tool_use_blocks(response))
    /\ history' = Append(history, Message("user", toolResults))
    /\ pc' = "loop"
    /\ UNCHANGED <<pendingImage, turnImage, staleImage, inputHistory, iteration,
                   engineCalls, finalSeen, response, blockIdx, toolResults,
                   result, dispatchLog, nextId>>

\* Lines 141-147: the loop ran out of iterations.
Exhaust ==
    /\ pc = "loop"
    /\ ~LoopContinues(iteration)
    /\ pendingImage' = "none"
    /\ result' = [status |-> "returned", text |-> FallbackText,
                  history |-> history]
    /\ pc' = "idle"
    /\ UNCHANGED <<turnImage, staleImage, inputHistory, history, iteration, engineCalls,
                   finalSeen, response, blockIdx, toolResults, dispatchLog,
                   nextId>>

\* The similarity cache of a freshly initialised database, no ranker call made.
InitRank ==
    /\ similarity_cache = {}
    /\ nextCacheId = 1
    /\ smartLast = NotCalled
    /\ dataChanged = FALSE

\* No stock written, no tape recorded, no session searching.
InitLate ==
    /\ stockWrites = {}
    /\ stockPreloaded = FALSE
    /\ tapeStore = [tapes |-> {}, compatibility |-> {}, equivalences |-> {}]
    /\ tapeFind = NotCalled
    /\ sess = <<>>

\* No call of the further resolvers made.
InitMore ==
    /\ equivLast = NotCalled
    /\ webLast = NotCalled
    /\ tapeLast = NotCalled
    /\ availLast = NotCalled
    /\ InitLate

InitRest == InitRank /\ InitMore

\* State after SubstitutionOrchestrator.__init__ (lines 23-38).
InitOrch ==
    /\ pc = "idle"
    /\ pendingImage = "none"
    /\ turnImage = "none"
    /\ staleImage = "none"
    /\ inputHistory = <<>>
    /\ history = <<>>
    /\ iteration = 0
    /\ engineCalls = 0
    /\ finalSeen = 0
    /\ response = <<>>
    /\ blockIdx = 0
    /\ toolResults = <<>>
    /\ dispatchLog = <<>>
    /\ result = NoResult
    /\ nextId = 1

\* The orchestrator is explored over a catalog that stays as created.
Init ==
    /\ InitOrch
    /\ products = {}
    /\ nextProductId = 1
    /\ direct_equivalences = {}
    /\ preloaded = FALSE
    /\ lastInsert = "none"
    /\ stock = <<>>
    /\ fuzzy_cache = NoCache
    /\ searchQuery = <<>>
    /\ searchResult = NotCalled
    /\ attrOriginal = NoRow
    /\ attrScored = NotCalled
    /\ InitRest

Next ==
    \/ \E img \in Images \cup {"none"}, h \in InputHistories :
          StartTurn(img, h) /\ UNCHANGED <<storeVars, searchVars, attrVars, restVars>>
    \/ \E c \in FinalResponses :
          EngineFinal(c) /\ UNCHANGED <<storeVars, searchVars, attrVars, restVars>>
    \/ \E b \in FreeBatches \cup {StubBatch} :
          EngineTools(b) /\ UNCHANGED <<storeVars, searchVars, attrVars, restVars>>
    \/ EngineRaise /\ UNCHANGED <<storeVars, searchVars, attrVars, restVars>>
    \/ \E k \in RaisedKinds \cup {"ok", "no_image", "unknown_tool"} :
          DispatchTool(k) /\ UNCHANGED <<storeVars, searchVars, attrVars, restVars>>
    \/ FinishRound /\ UNCHANGED <<storeVars, searchVars, attrVars, restVars>>
    \/ Exhaust /\ UNCHANGED <<storeVars, searchVars, attrVars, restVars>>

Spec == Init /\ [][Next]_vars

----------------------------------------------------------------------------
(* Claims about the orchestrator, checked under Spec *)

TurnOpen == pc # "idle"
TurnSeen == pc # "idle" \/ result.status # "none"
ToolUsesOf(msg) == tool_use_blocks(msg.content)
Ids(blocks) == [i \in 1..Len(blocks) |-> blocks[i].id]
RoundClosed == pc = "loop" /\ dispatchLog # <<>>

\* Every step of an open turn moves it forward: a further engine call, a
\* further pass of the dispatch loop, the end of the round, or the end of
\* the turn.
TurnAdvances ==
    TurnOpen =>
        \/ pc' = "idle"
        \/ engineCalls' = engineCalls + 1
        \/ /\ pc = "dispatch"
           /\ engineCalls' = engineCalls
           /\ \/ blockIdx' = blockIdx + 1 /\ pc' = "dispatch"
              \/ pc' = "loop" /\ blockIdx' = blockIdx

C1_State ==
    /\ engineCalls <= max_iterations
    /\ pc = "dispatch" => blockIdx <= Len(tool_use_blocks(response)) + 1
    /\ (result.status = "returned" /\ finalSeen = 0) =>
            /\ result.text = FallbackText
            /\ engineCalls = max_iterations

\* C1: whatever the engine answers, a turn makes at most max_iterations (8)
\* engine calls, every step of the turn advances it towards its end, and a
\* turn that returns without any tool-free response returns the fixed
\* fallback message after exactly 8 engine calls.
C1_LoopTerminates == [](C1_State) /\ [][TurnAdvances]_vars

\* C1 witness: a turn in which all 8 responses requested tools has returned
\* the fallback message.
C1_Witness ==
    /\ pc = "idle"
    /\ result.status = "returned"
    /\ finalSeen = 0
    /\ engineCalls = max_iterations
    /\ result.text = FallbackText

\* C2: a handler exception fills only its own result slot with an error
\* payload: while a round is dispatched the results collected so far are
\* those of the calls made so far; once the round is closed the message sent
\* back holds one payload per call, the error payloads for the calls that
\* raised and the handler's payload for every other call; and a turn is
\* never left by an exception while a round is open.
C2_PerCallIsolation ==
    /\ pc = "dispatch" =>
        /\ Len(toolResults) = blockIdx - 1
        /\ Len(dispatchLog) = blockIdx - 1
    /\ RoundClosed =>
        LET sent == history[Len(history)].content IN
        /\ history[Len(history)].role = "user"
        /\ Len(sent) = Len(tool_use_blocks(response))
        /\ Len(dispatchLog) = Len(sent)
        /\ \A j \in 1..Len(sent) :
              /\ sent[j].type = "tool_result"
              /\ dispatchLog[j].raised => sent[j].payload \in RaisedKinds
              /\ ~dispatchLog[j].raised => sent[j].payload = dispatchLog[j].kind
    /\ result.status = "raised" =>
        /\ pc = "idle"
        /\ history[Len(history)].role = "user"

\* C2 witness: a closed round of two calls, one of which raised while the
\* other's successful payload is in the message sent back.
C2_Witness ==
    /\ RoundClosed
    /\ Len(dispatchLog) = 2
    /\ \E j, k \in 1..2 :
          /\ j # k
          /\ dispatchLog[j].raised
          /\ dispatchLog[k].kind = "ok"
          /\ history[Len(history)].content[j].payload \in RaisedKinds
          /\ history[Len(history)].content[k].payload = "ok"

\* C3: once a response without a tool call has come, the turn is over: it
\* was the last engine call, the history ends with that response, and the
\* text returned is the text of its text blocks, in order.
C3_FirstFinalEndsTurn ==
    finalSeen # 0 =>
        /\ pc = "idle"
        /\ result.status = "returned"
        /\ engineCalls = finalSeen
        /\ history[Len(history)] = Message("assistant", response)
        /\ \A i \in 1..Len(response) : response[i].type = "text"
        /\ result.text = [i \in 1..Len(response) |-> response[i].text[1]]
        /\ result.history = history

\* C3 witness: a turn ended by a two-block final answer after a tool round.
C3_Witness ==
    /\ finalSeen = 2
    /\ pc = "idle"
    /\ result.text = <<"a", "b">>

\* C4: every assistant response with tool calls is followed directly by one
\* user message holding exactly one tool result per call, in order and keyed
\* by the call's id; while that message is missing the round is still being
\* dispatched (so no engine call can be made), and a closed round has
\* dispatched every call of the response.
C4_RoundResults ==
    /\ \A i \in 1..Len(history) :
        (history[i].role = "assistant" /\ ToolUsesOf(history[i]) # <<>>) =>
            IF i < Len(history)
            THEN /\ history[i + 1].role = "user"
                 /\ \A j \in 1..Len(history[i + 1].content) :
                        history[i + 1].content[j].type = "tool_result"
                 /\ Ids(history[i + 1].content) = Ids(ToolUsesOf(history[i]))
            ELSE pc = "dispatch"
    /\ pc = "dispatch" =>
        Ids(toolResults) = SubSeq(Ids(tool_use_blocks(response)), 1, blockIdx - 1)
    /\ RoundClosed =>
        [j \in 1..Len(dispatchLog) |-> dispatchLog[j].id]
            = Ids(tool_use_blocks(response))

\* C4 witness: a round of two calls is closed and its two results are in the
\* history under the two ids.
C4_Witness ==
    /\ RoundClosed
    /\ Len(tool_use_blocks(response)) = 2
    /\ Ids(history[Len(history)].content) = <<nextId - 2, nextId - 1>>

\* C5: a search_by_image call never consumes an image other than the one
\* passed to the running call, and when that call carried no image it yields
\* the "no image" payload without consuming anything, whatever the object
\* held when the call began.
C5_ImageTurnScoped ==
    \A j \in 1..Len(dispatchLog) :
        dispatchLog[j].name = "search_by_image" =>
            /\ dispatchLog[j].image \in {"none", turnImage}
            /\ turnImage = "none" =>
                  /\ dispatchLog[j].kind = "no_image"
                  /\ dispatchLog[j].image = "none"
            /\ turnImage # "none" => dispatchLog[j].kind # "no_image"

\* C5 witness: the object still held the image of an earlier turn (ended by
\* an engine exception) when a turn without image began, and search_by_image
\* answered "no image".
C5_Witness ==
    /\ staleImage # "none"
    /\ turnImage = "none"
    /\ \E j \in 1..Len(dispatchLog) :
          /\ dispatchLog[j].name = "search_by_image"
          /\ dispatchLog[j].kind = "no_image"

\* C6: a turn only appends: the history is the input history, the user
\* message, then alternately an assistant response and a tool-result
\* message; a returned turn returns that list, with two messages per tool
\* round plus the final answer if there was one.
C6_AppendOnly ==
    TurnSeen =>
        LET n == Len(inputHistory) IN
        /\ IsPrefix(inputHistory, history)
        /\ Len(history) > n
        /\ history[n + 1] = Message("user", UserContent(turnImage))
        /\ \A k \in 1..(Len(history) - n - 1) :
              history[n + 1 + k].role =
                  IF k % 2 = 1 THEN "assistant" ELSE "user"
        /\ result.status = "returned" =>
              /\ result.history = history
              /\ Len(history) =
                    n + 1 + (IF finalSeen # 0 THEN 2 * (engineCalls - 1) + 1
                             ELSE 2 * engineCalls)

\* C6 witness: a turn started on a non-empty history ended by exhaustion.
C6_Witness ==
    /\ result.status = "returned"
    /\ finalSeen = 0
    /\ Len(inputHistory) > 0
    /\ Len(result.history) = Len(inputHistory) + 1 + 2 * max_iterations

\* A call the registry surface allows: a registry name, all its required
\* inputs, and no input beyond its optional ones.
SurfaceAllows(name, input) ==
    /\ name \in tool_handlers
    /\ ToolsRequired(name) \subseteq input
    /\ input \subseteq ToolsRequired(name) \cup SurfaceOptional(name)

\* C7: every call the registry surface allows reaches its resolver: its
\* payload is never an unknown-tool, missing-operation or argument-mismatch
\* error.
C7_SurfaceCallsReachResolver ==
    \A j \in 1..Len(dispatchLog) :
        SurfaceAllows(dispatchLog[j].name, dispatchLog[j].input) =>
            dispatchLog[j].kind \notin
                {"unknown_tool", "missing_operation", "arg_mismatch"}

----------------------------------------------------------------------------
(* Text: a string is a sequence of one-character strings *)

\* The letters of the exploration's alphabet, in alphabetical order.
LowerLetters ==
    <<"a", "b", "c", "d", "e", "f", "g", "h", "i", "j", "k", "l", "m",
      "n", "o", "p", "q", "r", "s", "t", "u", "v", "w", "x", "y", "z">>

UpperLetters ==
    <<"A", "B", "C", "D", "E", "F", "G", "H", "I", "J", "K", "L", "M",
      "N", "O", "P", "Q", "R", "S", "T", "U", "V", "W", "X", "Y", "Z">>

Digits == <<"0", "1", "2", "3", "4", "5", "6", "7", "8", "9">>

IndexOf(c, seq) == IF \E i \in 1..Len(seq) : seq[i] = c
                   THEN CHOOSE i \in 1..Len(seq) : seq[i] = c
                   ELSE 0

UpperChar(c) == IF IndexOf(c, LowerLetters) > 0 THEN UpperLetters[IndexOf(c, LowerLetters)] ELSE c

LowerChar(c) == IF IndexOf(c, UpperLetters) > 0 THEN LowerLetters[IndexOf(c, UpperLetters)] ELSE c

IsDigit(c) == IndexOf(c, Digits) > 0

\* A word character of a regular expression (a letter, a digit or "_").
IsWordChar(c) ==
    IsDigit(c) \/ c = "_" \/ IndexOf(c, LowerLetters) > 0 \/ IndexOf(c, UpperLetters) > 0

\* str.upper(), str.lower()
upper(s) == [i \in 1..Len(s) |-> UpperChar(s[i])]

lower(s) == [i \in 1..Len(s) |-> LowerChar(s[i])]

RECURSIVE StripLeft(_)
StripLeft(s) ==
    IF s # <<>> /\ Head(s) = " " THEN StripLeft(Tail(s)) ELSE s

RECURSIVE StripRight(_)
StripRight(s) ==
    IF s # <<>> /\ s[Len(s)] = " " THEN StripRight(SubSeq(s, 1, Len(s) - 1)) ELSE s

\* str.strip()
strip(s) == StripRight(StripLeft(s))

\* str.replace(old, new) for a one-character old; new is a string (maybe empty).
RECURSIVE replace(_, _, _)
replace(s, old, new) ==
    IF s = <<>> THEN <<>>
    ELSE (IF Head(s) = old THEN new ELSE <<Head(s)>>) \o replace(Tail(s), old, new)

\* s[:n]
Take(s, n) == SubSeq(s, 1, IF Len(s) < n THEN Len(s) ELSE n)

\* re.sub(r"\s+", " ", s)
RECURSIVE CollapseSpaces(_)
CollapseSpaces(s) ==
    IF s = <<>> THEN <<>>
    ELSE IF Head(s) = " " THEN <<" ">> \o CollapseSpaces(StripLeft(s))
    ELSE <<Head(s)>> \o CollapseSpaces(Tail(s))

\* normalize_text (text_processing.py): strip, lowercase, drop accents (the
\* alphabet has none), collapse runs of whitespace.
normalize_text(text) ==
    IF text = <<>> THEN <<>> ELSE CollapseSpaces(lower(strip(text)))

\* str.split(): the words between runs of whitespace.
RECURSIVE SplitWords(_, _)
SplitWords(s, word) ==
    IF s = <<>> THEN (IF word = <<>> THEN <<>> ELSE <<word>>)
    ELSE IF Head(s) = " "
    THEN (IF word = <<>> THEN <<>> ELSE <<word>>) \o SplitWords(Tail(s), <<>>)
    ELSE SplitWords(Tail(s), Append(word, Head(s)))

\* " ".join(words)
RECURSIVE JoinWords(_)
JoinWords(words) ==
    IF words = <<>> THEN <<>>
    ELSE IF Len(words) = 1 THEN words[1]
    ELSE words[1] \o <<" ">> \o JoinWords(Tail(words))

\* Code point order of the alphabet: " " < digits < upper case < "_" < lower case.
CharOrd(c) ==
    IF c = " " THEN 0
    ELSE IF IsDigit(c) THEN IndexOf(c, Digits)
    ELSE IF IndexOf(c, UpperLetters) > 0 THEN 100 + IndexOf(c, UpperLetters)
    ELSE IF c = "_" THEN 200
    ELSE 300 + IndexOf(c, LowerLetters)

\* String comparison a <= b.
RECURSIVE StrLeq(_, _)
StrLeq(a, b) ==
    IF a = <<>> THEN TRUE
    ELSE IF b = <<>> THEN FALSE
    ELSE IF Head(a) = Head(b) THEN StrLeq(Tail(a), Tail(b))
    ELSE CharOrd(Head(a)) < CharOrd(Head(b))

\* sorted(words)
RECURSIVE SortedWords(_)
SortedWords(words) ==
    IF words = <<>> THEN <<>>
    ELSE LET i == CHOOSE i \in 1..Len(words) :
                    \A j \in 1..Len(words) : StrLeq(words[i], words[j])
         IN  <<words[i]>> \o
             SortedWords(SubSeq(words, 1, i - 1) \o SubSeq(words, i + 1, Len(words)))

\* Length of a longest common subsequence.
RECURSIVE LCS(_, _)
LCS(a, b) ==
    IF a = <<>> \/ b = <<>> THEN 0
    ELSE IF Head(a) = Head(b) THEN 1 + LCS(Tail(a), Tail(b))
    ELSE LET x == LCS(Tail(a), b)
             y == LCS(a, Tail(b))
         IN  IF x >= y THEN x ELSE y

\* Scores are kept in ten-thousandths: 10000 is 1.0.
ScoreScale == 10000

\* rapidfuzz fuzz.ratio(a, b) / 100: the normalised indel similarity
\* 2 * LCS / (len(a) + len(b)), 1.0 for two empty strings.
ratio(a, b) ==
    IF Len(a) + Len(b) = 0 THEN ScoreScale
    ELSE (2 * LCS(a, b) * ScoreScale) \div (Len(a) + Len(b))

\* rapidfuzz fuzz.token_sort_ratio(a, b) / 100.
token_sort_ratio(a, b) ==
    ratio(JoinWords(SortedWords(SplitWords(a, <<>>))),
          JoinWords(SortedWords(SplitWords(b, <<>>))))

\* Python's `needle in text`.
Contains(text, needle) ==
    \E i \in 0..(Len(text) - Len(needle)) : SubSeq(text, i + 1, i + Len(needle)) = needle

----------------------------------------------------------------------------
(* Catalog store: products and direct equivalences *)

\* SQL NULL (Python None) in a numeric column.
NullQty == 0 - 1

\* Largest products.id the exploration hands out.
MaxProductId == 3

PreloadSource == "Tabela Similaridade Grupo Locatelli"

\* The manufacturers of the bundled sheet in column order (abbreviated to
\* their initials: DURATEX, ARAUCO, GUARARAPES).
MANUFACTURERS == << <<"D">>, <<"A">>, <<"G">> >>

\* Bundled similarity sheets: data rows, one cell per manufacturer column,
\* <<>> for an empty cell.
Sheets ==
    { << << <<"x">>, <<"a">>, <<>> >> >>,
      << << <<"x">>, <<"a">>, <<>> >>, << <<>>, <<"a">>, <<"b">> >> >> }

\* Rows of a products spreadsheet.  An empty finish stands for a missing one,
\* category "NULL" for a missing category.
ProductRows ==
    { [brand |-> <<"A">>, product_name |-> <<"a">>, product_code |-> <<"A", "_", "A">>,
       thickness_mm |-> NullQty, finish |-> <<>>, category |-> "NULL"],
      [brand |-> <<"G">>, product_name |-> <<"b">>, product_code |-> <<"g", "1">>,
       thickness_mm |-> 15, finish |-> <<"M", "a", "t", "t">>, category |-> "unicolor"],
      [brand |-> <<"D">>, product_name |-> <<"x">>, product_code |-> <<"G", "1">>,
       thickness_mm |-> 18, finish |-> <<>>, category |-> "madeirado"] }

\* product_code values an equivalences spreadsheet may name.
RowCodes ==
    {r.product_code : r \in ProductRows} \cup {<<"D", "_", "X">>, <<"G", "_", "B">>}

\* equivalence_source values of an equivalences spreadsheet.
RowSources == {"manual"}

\* Words of _infer_category (the first of each list and the ones the
\* exploration's product names use).
unicolor_words == {<<"B", "R", "A", "N", "C", "O">>, <<"C", "I", "N", "Z", "A">>, <<"N", "E", "V", "E">>}

madeirado_words == {<<"C", "A", "R", "V", "A", "L", "H", "O">>, <<"N", "O", "G", "A", "L">>, <<"O", "A", "K">>}

fantasia_words == {<<"T", "R", "A", "M", "A">>, <<"S", "I", "L", "K">>}

\* _infer_category (preload_data.py 196-231).
_infer_category(product_name) ==
    LET name_upper == upper(product_name)
    IN  IF \E w \in unicolor_words : Contains(name_upper, w) THEN "unicolor"
        ELSE IF \E w \in madeirado_words : Contains(name_upper, w) THEN "madeirado"
        ELSE IF \E w \in fantasia_words : Contains(name_upper, w) THEN "fantasia"
        ELSE "outro"

\* _generate_product_code (preload_data.py 182-193).
_generate_product_code(brand, product_name) ==
    LET brand_part == Take(replace(replace(upper(brand), " ", <<>>), "/", <<>>), 6)
        name_part  == replace(replace(replace(replace(upper(product_name),
                          " ", <<"_">>), "/", <<"_">>), ".", <<>>), ",", <<>>)
    IN  brand_part \o <<"_">> \o name_part

\* SELECT * FROM products WHERE product_code = ? AND is_active = 1 (fetchone).
get_product_by_code(product_code) ==
    IF \E p \in products : p.product_code = product_code
    THEN CHOOSE p \in products : p.product_code = product_code
    ELSE NoRow

\* SELECT * FROM products WHERE product_name = ? AND brand = ? AND is_active = 1
\* (fetchone: the row of lowest id).
ProductByNameBrand(name, brand) ==
    LET hits == {p \in products : p.product_name = name /\ p.brand = brand}
    IN  IF hits = {} THEN NoRow
        ELSE CHOOSE p \in hits : \A q \in hits : p.id <= q.id

\* A row of direct_equivalences, stock or another child table refers to the product.
Referenced(id) ==
    \/ \E de \in direct_equivalences : de.product_id_a = id \/ de.product_id_b = id
    \/ \E sc \in similarity_cache : sc.product_id_a = id \/ sc.product_id_b = id

\* The stock rows left when product id is deleted (ON DELETE CASCADE).
StockWithout(rows, id) == SelectSeq(rows, LAMBDA r : r.product_id # id)

NewProduct(id, row) ==
    [id |-> id, brand |-> row.brand, product_name |-> row.product_name,
     product_code |-> row.product_code, thickness_mm |-> row.thickness_mm,
     finish |-> row.finish, category |-> row.category]

\* One row of import_products: INSERT OR REPLACE INTO products.  A row whose
\* code exists replaces it under a fresh id; the replacement fails (and the
\* row is counted as failed) when an equivalence still refers to the old id,
\* foreign keys being ON.
ImportProductRow(row) ==
    /\ nextProductId <= MaxProductId
    /\ LET old == get_product_by_code(row.product_code)
       IN  IF old = NoRow
           THEN /\ products' = products \cup {NewProduct(nextProductId, row)}
                /\ nextProductId' = nextProductId + 1
                /\ stock' = stock
           ELSE IF Referenced(old.id)
           THEN UNCHANGED <<products, nextProductId, stock>>
           ELSE /\ products' = (products \ {old}) \cup {NewProduct(nextProductId, row)}
                /\ nextProductId' = nextProductId + 1
                /\ stock' = StockWithout(stock, old.id)
    /\ UNCHANGED <<direct_equivalences, preloaded, lastInsert>>

\* "Ensure consistent ordering (lower id first)": id_a = min(..), id_b = max(..).
CanonicalPairAsGiven(x, y) == <<x, y>>

CanonicalPair(x, y) == <<IF x <= y THEN x ELSE y, IF x <= y THEN y ELSE x>>

\* INSERT OR IGNORE INTO direct_equivalences under UNIQUE(product_id_a, product_id_b).
InsertOrIgnore(rows, x, y, source, confidence) ==
    LET pair == CanonicalPair(x, y)
    IN  IF \E de \in rows : de.product_id_a = pair[1] /\ de.product_id_b = pair[2]
        THEN rows
        ELSE rows \cup {[product_id_a |-> pair[1], product_id_b |-> pair[2],
                         equivalence_source |-> source, confidence |-> confidence]}

\* How the two ids of an insertion were ordered by its caller.
ArgumentOrder(x, y) ==
    IF x < y THEN "ascending" ELSE IF x > y THEN "descending" ELSE "same"

\* One row of import_equivalences, once both products are looked up.
InsertImported(product_a, product_b, source) ==
    IF product_a = NoRow \/ product_b = NoRow
    THEN UNCHANGED <<direct_equivalences, lastInsert>>
    ELSE /\ direct_equivalences' =
                InsertOrIgnore(direct_equivalences, product_a.id, product_b.id, source, 100)
         /\ lastInsert' = ArgumentOrder(product_a.id, product_b.id)

\* A row of an equivalences sheet that has the columns code_a and code_b.
ImportEquivalenceRow(code_a, code_b, source) ==
    /\ InsertImported(get_product_by_code(strip(code_a)),
                      get_product_by_code(strip(code_b)), source)
    /\ UNCHANGED <<products, nextProductId, preloaded, stock>>

\* A row of an equivalences sheet without code columns: lookup by name and brand.
ImportEquivalenceRowByName(name_a, brand_a, name_b, brand_b, source) ==
    /\ InsertImported(ProductByNameBrand(strip(name_a), strip(brand_a)),
                      ProductByNameBrand(strip(name_b), strip(brand_b)), source)
    /\ UNCHANGED <<products, nextProductId, preloaded, stock>>

\* _ensure_product on the tables st = [products, next, ...]: the id of the
\* product of the generated code, created when absent.
_ensure_product(st, brand, product_name) ==
    LET product_code == _generate_product_code(brand, product_name)
        existing == {p \in st.products : p.product_code = product_code}
    IN  IF existing # {}
        THEN [st EXCEPT !.id = (CHOOSE p \in existing : TRUE).id]
        ELSE [st EXCEPT !.products = @ \cup
                            {NewProduct(st.next, [brand |-> brand,
                                                  product_name |-> product_name,
                                                  product_code |-> product_code,
                                                  thickness_mm |-> NullQty,
                                                  finish |-> <<>>,
                                                  category |-> _infer_category(product_name)])},
                        !.next = @ + 1,
                        !.id = st.next]

\* The loop over the manufacturer columns of one sheet row, from column col:
\* st.ids collects product_ids.
RECURSIVE RowProducts(_, _, _)
RowProducts(st, row, col) ==
    IF col > Len(MANUFACTURERS) THEN st
    ELSE IF col > Len(row) \/ strip(row[col]) = <<>>
    THEN RowProducts(st, row, col + 1)
    ELSE LET ens == _ensure_product(st, MANUFACTURERS[col], strip(row[col]))
         IN  RowProducts([ens EXCEPT !.ids = Append(@, ens.id)], row, col + 1)

\* The double loop "for i ... for j in range(i + 1, ...)" from position (i, j).
RECURSIVE RowPairs(_, _, _)
RowPairs(st, i, j) ==
    IF i > Len(st.ids) THEN st
    ELSE IF j > Len(st.ids) THEN RowPairs(st, i + 1, i + 2)
    ELSE RowPairs([st EXCEPT
                     !.rows = InsertOrIgnore(@, st.ids[i], st.ids[j], PreloadSource, 100),
                     !.last = ArgumentOrder(st.ids[i], st.ids[j])],
                  i, j + 1)

\* The loop over the data rows of the sheet, from row r.
RECURSIVE SheetRows(_, _, _)
SheetRows(st, sheet, r) ==
    IF r > Len(sheet) THEN st
    ELSE SheetRows(RowPairs(RowProducts([st EXCEPT !.ids = <<>>], sheet[r], 1), 1, 2),
                   sheet, r + 1)

\* The tables after the bundled sheet is loaded on top of the given rows.
Preloaded(rows, sheet) ==
    SheetRows([products |-> products, next |-> nextProductId, rows |-> rows,
               last |-> lastInsert, ids |-> <<>>, id |-> 0], sheet, 1)

StorePreloaded(st) ==
    /\ st.next <= MaxProductId + 1
    /\ products' = st.products
    /\ nextProductId' = st.next
    /\ direct_equivalences' = st.rows
    /\ lastInsert' = st.last
    /\ preloaded' = TRUE
    /\ UNCHANGED stock

\* preload_similarity_table: returns at once when the load is already logged.
PreloadSimilarityTable(sheet) ==
    /\ ~preloaded
    /\ StorePreloaded(Preloaded(direct_equivalences, sheet))

\* Sidebar button "Recarregar Base de Similaridade": forget the load, delete
\* the rows it made, load again.
ReloadSimilarity(sheet) ==
    StorePreloaded(Preloaded({de \in direct_equivalences :
                                 de.equivalence_source # PreloadSource},
                             sheet))

\* LEFT JOIN stock s ON p.id = s.product_id, for one product of the join.
JoinStock(row) ==
    LET rows == SelectSeq(stock, LAMBDA s : s.product_id = row.id)
        nulls == [quantity_available |-> NullQty, quantity_reserved |-> NullQty,
                  location |-> "NULL"]
    IN  IF rows = <<>> THEN <<row @@ nulls>>
        ELSE [i \in 1..Len(rows) |->
                 row @@ [quantity_available |-> rows[i].quantity_available,
                         quantity_reserved |-> rows[i].quantity_reserved,
                         location |-> rows[i].location]]

\* get_equivalents: the joined rows, in no particular order.
get_equivalents(product_id) ==
    UNION { LET other == IF de.product_id_a = product_id THEN de.product_id_b
                         ELSE de.product_id_a
            IN  UNION { {j[i] : i \in 1..Len(j)} :
                        j \in { JoinStock(p @@ [equivalence_source |-> de.equivalence_source,
                                                confidence |-> de.confidence]) :
                                p \in {q \in products : q.id = other} } }
          : de \in {d \in direct_equivalences :
                       d.product_id_a = product_id \/ d.product_id_b = product_id} }

\* State of a freshly initialised database (initialize_database).
InitStore ==
    /\ products = {}
    /\ nextProductId = 1
    /\ direct_equivalences = {}
    /\ preloaded = FALSE
    /\ lastInsert = "none"
    /\ stock = <<>>

InitStoreOnly ==
    /\ InitOrch
    /\ InitStore
    /\ fuzzy_cache = NoCache
    /\ searchQuery = <<>>
    /\ searchResult = NotCalled
    /\ attrOriginal = NoRow
    /\ attrScored = NotCalled
    /\ InitRest

NameBrands == {<<r.product_name, r.brand>> : r \in ProductRows}

NextStore ==
    \/ \E row \in ProductRows :
          ImportProductRow(row) /\ UNCHANGED <<orchVars, searchVars, attrVars, restVars>>
    \/ \E code_a \in RowCodes, code_b \in RowCodes, source \in RowSources :
          ImportEquivalenceRow(code_a, code_b, source)
          /\ UNCHANGED <<orchVars, searchVars, attrVars, restVars>>
    \/ \E a \in NameBrands, b \in NameBrands, source \in RowSources :
          ImportEquivalenceRowByName(a[1], a[2], b[1], b[2], source)
          /\ UNCHANGED <<orchVars, searchVars, attrVars, restVars>>
    \/ \E sheet \in Sheets :
          PreloadSimilarityTable(sheet) /\ UNCHANGED <<orchVars, searchVars, attrVars, restVars>>
    \/ \E sheet \in Sheets :
          ReloadSimilarity(sheet) /\ UNCHANGED <<orchVars, searchVars, attrVars, restVars>>

SpecStore == InitStoreOnly /\ [][NextStore]_vars


----------------------------------------------------------------------------
(* Text matcher: product_service.search *)

\* Settings (config/settings.py).
FUZZY_MATCH_THRESHOLD == 6000

MAX_SEARCH_RESULTS == 10

PRIMARY_LOCATION == "principal"

\* Value of a run of digits.
RECURSIVE DigitsValue(_)
DigitsValue(ds) ==
    IF ds = <<>> THEN 0
    ELSE 10 * DigitsValue(SubSeq(ds, 1, Len(ds) - 1)) + (IndexOf(ds[Len(ds)], Digits) - 1)

\* Last position of the run of digits that starts at i.
RECURSIVE DigitRunEnd(_, _)
DigitRunEnd(s, i) ==
    IF i + 1 <= Len(s) /\ IsDigit(s[i + 1]) THEN DigitRunEnd(s, i + 1) ELSE i

\* First position at or after i that holds no blank.
RECURSIVE SkipSpaces(_, _)
SkipSpaces(s, i) ==
    IF i <= Len(s) /\ s[i] = " " THEN SkipSpaces(s, i + 1) ELSE i

\* Position of the second "m" when (\d+)\s*mm matches at i (case ignored),
\* 0 when it does not.  The alphabet has no "." and no ",".
ThicknessMatchEnd(s, i) ==
    IF ~IsDigit(s[i]) THEN 0
    ELSE LET k == SkipSpaces(s, DigitRunEnd(s, i) + 1)
         IN  IF k + 1 <= Len(s) /\ LowerChar(s[k]) = "m" /\ LowerChar(s[k + 1]) = "m"
             THEN k + 1 ELSE 0

\* _extract_thickness_mm: the number of the leftmost match, None without one.
_extract_thickness_mm(text) ==
    LET hits == {i \in 1..Len(text) : ThicknessMatchEnd(text, i) > 0}
    IN  IF hits = {} THEN NullQty
        ELSE LET i == CHOOSE i \in hits : \A j \in hits : i <= j
             IN  DigitsValue(SubSeq(text, i, DigitRunEnd(text, i)))

\* \b before position i, and \b after position i.
BoundaryBefore(s, i) == i = 1 \/ ~IsWordChar(s[i - 1])

BoundaryAfter(s, i) == i = Len(s) \/ ~IsWordChar(s[i + 1])

\* re.sub(r"\b\d+(?:[.,]\d+)?\s*mm\b", "", q, flags=re.IGNORECASE), from position i.
RECURSIVE RemoveThickness(_, _)
RemoveThickness(s, i) ==
    IF i > Len(s) THEN <<>>
    ELSE LET e == ThicknessMatchEnd(s, i)
         IN  IF BoundaryBefore(s, i) /\ e > 0 /\ BoundaryAfter(s, e)
             THEN RemoveThickness(s, e + 1)
             ELSE <<s[i]>> \o RemoveThickness(s, i + 1)

MaterialWords == { <<"m", "d", "f">>, <<"m", "d", "p">>, <<"b", "p">>,
                   <<"p", "v", "c">>, <<"h", "d", "f">> }

\* re.sub(r"\b(mdf|mdp|bp|pvc|hdf)\b", "", q, flags=re.IGNORECASE), from position i.
RECURSIVE RemoveMaterials(_, _)
RemoveMaterials(s, i) ==
    IF i > Len(s) THEN <<>>
    ELSE LET ends == {i + Len(w) - 1 : w \in
                        {w \in MaterialWords :
                            /\ i + Len(w) - 1 <= Len(s)
                            /\ lower(SubSeq(s, i, i + Len(w) - 1)) = w
                            /\ BoundaryAfter(s, i + Len(w) - 1)}}
         IN  IF BoundaryBefore(s, i) /\ ends # {}
             THEN RemoveMaterials(s, (CHOOSE e \in ends : TRUE) + 1)
             ELSE <<s[i]>> \o RemoveMaterials(s, i + 1)

\* _normalize_query_for_search
_normalize_query_for_search(query) ==
    LET q == strip(CollapseSpaces(RemoveMaterials(RemoveThickness(query, 1), 1)))
    IN  IF q = <<>> THEN query ELSE q

\* SQLite's `text LIKE '%' || pattern || '%'`: letter case is ignored and
\* "_" in the pattern stands for any one character.
Like(text, pattern) ==
    \E off \in 0..(Len(text) - Len(pattern)) :
        \A k \in 1..Len(pattern) :
            pattern[k] = "_" \/ LowerChar(text[off + k]) = LowerChar(pattern[k])

\* The rows of a set of products in id order.
RECURSIVE ById(_)
ById(rows) ==
    IF rows = {} THEN <<>>
    ELSE LET p == CHOOSE p \in rows : \A q \in rows : p.id <= q.id
         IN  <<p>> \o ById(rows \ {p})

\* queries.search_products_by_name
search_products_by_name(query, limit) ==
    Take(ById({p \in products : \/ Like(p.product_name, query)
                                \/ Like(p.brand, query)
                                \/ Like(p.product_code, query)}), limit)

\* queries.get_all_active_products
get_all_active_products == ById(products)

\* One item of the fuzzy cache (_get_fuzzy_cache, lines 110-118).
FuzzyItem(product) ==
    [id |-> product.id,
     norm_name |-> normalize_text(product.product_name),
     norm_brand_name |-> normalize_text(product.brand \o <<" ">> \o product.product_name),
     norm_code |-> normalize_text(product.product_code),
     row |-> product]

\* _get_fuzzy_cache: the cache as it is after the call.
_get_fuzzy_cache(cache) ==
    IF cache = NoCache
    THEN [built |-> TRUE,
          items |-> [i \in 1..Len(get_all_active_products) |->
                        FuzzyItem(get_all_active_products[i])]]
    ELSE cache

Max3(a, b, c) ==
    IF a >= b /\ a >= c THEN a ELSE IF b >= c THEN b ELSE c

\* _compute_match_score
_compute_match_score(query, product) ==
    LET norm_query == normalize_text(query)
    IN  Max3(token_sort_ratio(norm_query, normalize_text(product.product_name)),
             token_sort_ratio(norm_query, normalize_text(product.brand)),
             token_sort_ratio(norm_query,
                 normalize_text(product.brand \o <<" ">> \o product.product_name)))

\* _fuzzy_score_cached
_fuzzy_score_cached(normalized_query, item) ==
    Max3(token_sort_ratio(normalized_query, item.norm_name),
         token_sort_ratio(normalized_query, item.norm_brand_name),
         ratio(normalized_query, item.norm_code))


\* Keyword parameters queries.get_stock_by_product_id declares.
get_stock_by_product_id_params == {"product_id"}

\* queries.get_stock_by_product_id: fetchone over the stock rows of the product.
get_stock_by_product_id(product_id) ==
    LET rows == SelectSeq(stock, LAMBDA r : r.product_id = product_id)
    IN  IF rows = <<>> THEN NoRow ELSE rows[1]

\* A call raised TypeError.
TypeError == [raised |-> "TypeError"]

\* _enrich_with_stock: calls get_stock_by_product_id(product["id"],
\* location=PRIMARY_LOCATION); Python raises TypeError for a keyword the
\* function does not declare.
_enrich_with_stock(product) ==
    IF ~({"product_id", "location"} \subseteq get_stock_by_product_id_params)
    THEN TypeError
    ELSE LET st == get_stock_by_product_id(product.id)
         IN  IF st # NoRow
             THEN product @@ [quantity_available |-> st.quantity_available,
                              quantity_reserved |-> st.quantity_reserved,
                              location |-> st.location,
                              in_stock |-> (st.quantity_available - st.quantity_reserved) > 0]
             ELSE product @@ [quantity_available |-> 0, quantity_reserved |-> 0,
                              location |-> PRIMARY_LOCATION, in_stock |-> FALSE]

Scored(product, score, type) == product @@ [match_score |-> score, match_type |-> type]

EnrichEach(rows) == [i \in 1..Len(rows) |-> _enrich_with_stock(rows[i])]

Raises(rows) == \E i \in 1..Len(rows) : rows[i] = TypeError

\* list.sort(key=match_score, reverse=True): stable, highest score first.
RECURSIVE SortByScore(_)
SortByScore(rows) ==
    IF rows = <<>> THEN <<>>
    ELSE LET i == CHOOSE i \in 1..Len(rows) :
                    /\ \A j \in 1..Len(rows) : rows[i].match_score >= rows[j].match_score
                    /\ \A j \in 1..(i - 1) : rows[j].match_score < rows[i].match_score
         IN  <<rows[i]>> \o
             SortByScore(SubSeq(rows, 1, i - 1) \o SubSeq(rows, i + 1, Len(rows)))

Abs(n) == IF n < 0 THEN 0 - n ELSE n

\* abs(float(thickness) - required_thickness) <= 0.1, thicknesses in whole mm.
WithinTolerance(thickness, required_thickness) ==
    10 * Abs(thickness - required_thickness) <= 1

\* Lines 76-93 of search: final sort and the thickness filter.
RankAndFilter(results, required_thickness) ==
    LET sorted == SortByScore(results)
        flagged == [i \in 1..Len(sorted) |->
                      sorted[i] @@
                      [requested_thickness_mm |-> required_thickness,
                       thickness_match |->
                          /\ sorted[i].thickness_mm # NullQty
                          /\ WithinTolerance(sorted[i].thickness_mm, required_thickness)]]
        matched == SelectSeq(flagged, LAMBDA r : r.thickness_match)
    IN  IF required_thickness = NullQty THEN Take(sorted, MAX_SEARCH_RESULTS)
        ELSE IF matched # <<>> THEN Take(matched, MAX_SEARCH_RESULTS)
        ELSE Take(flagged, MAX_SEARCH_RESULTS)

Returned(results, cache) ==
    [called |-> TRUE, raised |-> FALSE, results |-> results, cache |-> cache]

Raised(cache) ==
    [called |-> TRUE, raised |-> TRUE, results |-> <<>>, cache |-> cache]

\* Strategy 3 (lines 54-74) and the rest of search, given the name matches.
FuzzyAndRank(named, query_for_match, required_thickness, cache) ==
    LET seen_ids == {named[i].id : i \in 1..Len(named)}
        exact_name_match ==
            \E i \in 1..Len(named) :
                normalize_text(named[i].product_name) = normalize_text(query_for_match)
        normalized_query == normalize_text(query_for_match)
        built == _get_fuzzy_cache(cache)
        hits == SelectSeq(built.items,
                    LAMBDA item : /\ item.id \notin seen_ids
                                  /\ _fuzzy_score_cached(normalized_query, item)
                                        >= FUZZY_MATCH_THRESHOLD)
        fuzzy_results == SortByScore(
            [i \in 1..Len(hits) |->
                Scored(hits[i].row, _fuzzy_score_cached(normalized_query, hits[i]), "fuzzy")])
        fuzzy == EnrichEach(Take(fuzzy_results, MAX_SEARCH_RESULTS))
    IN  IF Len(named) < 3 /\ ~exact_name_match
        THEN IF Raises(fuzzy) THEN Raised(built)
             ELSE Returned(RankAndFilter(named \o fuzzy, required_thickness), built)
        ELSE Returned(RankAndFilter(named, required_thickness), cache)

\* product_service.search with the fuzzy cache as it finds it: what the call
\* produces and the cache it leaves.
search(query_arg, cache) ==
    LET query == strip(query_arg)
        required_thickness == _extract_thickness_mm(query)
        query_for_match == _normalize_query_for_search(query)
        product == get_product_by_code(upper(query))
        exact == _enrich_with_stock(Scored(product, ScoreScale, "exact_code"))
        sql_limit == IF required_thickness # NullQty THEN 100 ELSE 20
        sql_results == search_products_by_name(query_for_match, sql_limit)
        named == EnrichEach(
            [i \in 1..Len(sql_results) |->
                Scored(sql_results[i],
                       _compute_match_score(query_for_match, sql_results[i]),
                       "name_match")])
    IN  IF query = <<>> THEN Returned(<<>>, cache)
        ELSE IF product # NoRow
        THEN (IF exact = TypeError THEN Raised(cache) ELSE Returned(<<exact>>, cache))
        ELSE IF Raises(named) THEN Raised(cache)
        ELSE FuzzyAndRank(named, query_for_match, required_thickness, cache)

\* A call of search by a caller.
Search(query) ==
    LET r == search(query, fuzzy_cache)
    IN  /\ searchQuery' = query
        /\ searchResult' = [called |-> TRUE, raised |-> r.raised, results |-> r.results]
        /\ fuzzy_cache' = r.cache

\* One row of import_stock that has the column product_code and neither
\* brand nor product_name: update of the stock row of (product, location),
\* insertion when there is none.
ImportStockRow(product_code, location, quantity_available, quantity_reserved) ==
    LET product == get_product_by_code(strip(product_code))
        existing == {i \in 1..Len(stock) :
                        stock[i].product_id = product.id /\ stock[i].location = location}
        row == [product_id |-> product.id, location |-> location,
                quantity_available |-> quantity_available,
                quantity_reserved |-> quantity_reserved]
    IN  /\ IF product = NoRow THEN stock' = stock
           ELSE IF existing # {}
           THEN stock' = [stock EXCEPT ![CHOOSE i \in existing :
                                            \A j \in existing : i <= j] = row]
           ELSE stock' = Append(stock, row)
        /\ UNCHANGED <<products, nextProductId, direct_equivalences, preloaded, lastInsert>>

\* Queries the callers of search pass.
Queries ==
    { <<"G", "1">>, <<"g", "1">>, <<" ", "A", "_", "A">>, <<"x">>,
      <<"b", " ", "1", "5", "m", "m">>, <<"m", "d", "f">>, <<"h">>, <<" ">> }

StockLocations == {PRIMARY_LOCATION}

StockQuantities == {0, 2}

InitSearch == InitStoreOnly

NextSearch ==
    \/ \E row \in ProductRows :
          ImportProductRow(row) /\ UNCHANGED <<orchVars, searchVars, attrVars, restVars>>
    \/ \E code \in {<<"G", "1">>, <<"g", "1">>}, location \in StockLocations,
          available \in StockQuantities :
          ImportStockRow(code, location, available, 0)
          /\ UNCHANGED <<orchVars, searchVars, attrVars, restVars>>
    \/ \E query \in Queries :
          Search(query) /\ UNCHANGED <<orchVars, storeVars, attrVars, restVars>>

SpecSearch == InitSearch /\ [][NextSearch]_vars


----------------------------------------------------------------------------
(* Phase-1 attribute ranker: smart_alternatives_service._attribute_prefilter *)

DEFAULT_MIN_STOCK == 1

\* Keyword -> family, in the order of the dict (its first entries and the
\* ones the exploration's product names use).
WOOD_FAMILIES ==
    << <<<<"c", "a", "r", "v", "a", "l", "h", "o">>, "carvalho">>,
       <<<<"o", "a", "k">>, "carvalho">>,
       <<<<"n", "o", "g", "a", "l">>, "nogal">> >>

COLOR_FAMILIES ==
    << <<<<"b", "r", "a", "n", "c", "o">>, "branco">>,
       <<<<"n", "e", "v", "e">>, "branco">>,
       <<<<"c", "i", "n", "z", "a">>, "cinza">> >>

FINISH_GROUPS ==
    { {<<"d", "e", "s", "i", "g", "n">>, <<"n", "a", "t", "u", "r", "e">>},
      {<<"m", "a", "t", "t">>, <<"s", "o", "f", "t">>},
      {<<"l", "a", "c", "c", "a">>, <<"l", "i", "s", "o">>} }

\* The family of the first keyword of the table the name holds, "None" without one.
FamilyOf(name_lower, table) ==
    LET hits == {i \in 1..Len(table) : Contains(name_lower, table[i][1])}
    IN  IF hits = {} THEN "None"
        ELSE table[CHOOSE i \in hits : \A j \in hits : i <= j][2]

\* _extract_attributes.  A row always has the key category, so a missing
\* category stays None ("NULL") and is not replaced by "outro".
_extract_attributes(product) ==
    LET name_lower == lower(upper(product.product_name))
    IN  [category |-> product.category,
         finish |-> lower(product.finish),
         thickness |-> product.thickness_mm,
         wood_family |-> FamilyOf(name_lower, WOOD_FAMILIES),
         color_family |-> FamilyOf(name_lower, COLOR_FAMILIES),
         brand |-> product.brand]

\* _finishes_compatible
_finishes_compatible(finish_a, finish_b) ==
    \E group \in FINISH_GROUPS :
        /\ \E kw \in group : Contains(lower(finish_a), kw)
        /\ \E kw \in group : Contains(lower(finish_b), kw)

\* The credits of lines 250-271 without the color-family credit of lines
\* 257-260.
AttributeCreditsNoColor(original, candidate) ==
    (IF original.wood_family # "None" /\ candidate.wood_family # "None"
     THEN (IF original.wood_family = candidate.wood_family THEN 30 ELSE 5)
     ELSE 0)
    + (IF original.finish # <<>> /\ candidate.finish # <<>>
       THEN (IF original.finish = candidate.finish THEN 10
             ELSE IF _finishes_compatible(original.finish, candidate.finish) THEN 5
             ELSE 0)
       ELSE 0)
    + (IF original.thickness \notin {NullQty, 0} /\ candidate.thickness \notin {NullQty, 0}
          /\ original.thickness = candidate.thickness
       THEN 10 ELSE 0)

\* Lines 250-271: the credits for wood family, color family, finish and
\* thickness, in hundredths.
AttributeCredits(original, candidate) ==
    (IF original.wood_family # "None" /\ candidate.wood_family # "None"
     THEN (IF original.wood_family = candidate.wood_family THEN 30 ELSE 5)
     ELSE 0)
    + (IF original.color_family # "None" /\ candidate.color_family # "None"
          /\ original.color_family = candidate.color_family
       THEN 30 ELSE 0)
    + (IF original.finish # <<>> /\ candidate.finish # <<>>
       THEN (IF original.finish = candidate.finish THEN 10
             ELSE IF _finishes_compatible(original.finish, candidate.finish) THEN 5
             ELSE 0)
       ELSE 0)
    + (IF original.thickness \notin {NullQty, 0} /\ candidate.thickness \notin {NullQty, 0}
          /\ original.thickness = candidate.thickness
       THEN 10 ELSE 0)

Min(a, b) == IF a <= b THEN a ELSE b

\* The category test without its last branch: other categories earn nothing
\* but the remaining credits still count.
_compute_attribute_scoreNoReturn(original, candidate) ==
    IF original.category = candidate.category
    THEN Min(30 + AttributeCredits(original, candidate), 100)
    ELSE IF original.category = "outro" \/ candidate.category = "outro"
    THEN Min(10 + AttributeCredits(original, candidate), 100)
    ELSE Min(AttributeCredits(original, candidate), 100)

\* _compute_attribute_score, in hundredths.
_compute_attribute_score(original, candidate) ==
    IF original.category = candidate.category
    THEN Min(30 + AttributeCredits(original, candidate), 100)
    ELSE IF original.category = "outro" \/ candidate.category = "outro"
    THEN Min(10 + AttributeCredits(original, candidate), 100)
    ELSE 0

\* score > 0.15.  The credits are multiples of 0.05 and the one sum that comes
\* to fifteen hundredths, 0.10 + 0.05, is 0.15000000000000002 in binary
\* floating point, which is above the literal 0.15.
AboveMinimumRelevance(score) == score >= 15

\* queries.get_product_by_id
get_product_by_id(product_id) ==
    IF \E p \in products : p.id = product_id
    THEN CHOOSE p \in products : p.id = product_id
    ELSE NoRow

\* The stock rows of a product, each joined to the product's row.
StockJoin(p) ==
    LET rows == SelectSeq(stock, LAMBDA r : r.product_id = p.id)
    IN  [i \in 1..Len(rows) |->
            p @@ [quantity_available |-> rows[i].quantity_available,
                  quantity_reserved |-> rows[i].quantity_reserved,
                  location |-> rows[i].location]]

RECURSIVE Concat(_)
Concat(seqs) == IF seqs = <<>> THEN <<>> ELSE Head(seqs) \o Concat(Tail(seqs))

\* queries.get_products_in_stock
get_products_in_stock(min_qty) ==
    SelectSeq(Concat([i \in 1..Len(ById(products)) |-> StockJoin(ById(products)[i])]),
              LAMBDA r : r.quantity_available - r.quantity_reserved >= min_qty)

\* Lines 186-201: the stock fields of a kept product.
WithNetAvailable(product, only_in_stock) ==
    IF only_in_stock
    THEN product @@ [net_available |-> product.quantity_available - product.quantity_reserved]
    ELSE LET st == get_stock_by_product_id(product.id)
         IN  IF st # NoRow
             THEN product @@ [quantity_available |-> st.quantity_available,
                              quantity_reserved |-> st.quantity_reserved,
                              net_available |-> st.quantity_available - st.quantity_reserved]
             ELSE product @@ [net_available |-> 0]

\* list.sort(key=attribute_score, reverse=True): stable, highest score first.
RECURSIVE SortByAttributeScore(_)
SortByAttributeScore(rows) ==
    IF rows = <<>> THEN <<>>
    ELSE LET i == CHOOSE i \in 1..Len(rows) :
                    /\ \A j \in 1..Len(rows) :
                          rows[i].attribute_score >= rows[j].attribute_score
                    /\ \A j \in 1..(i - 1) :
                          rows[j].attribute_score < rows[i].attribute_score
         IN  <<rows[i]>> \o
             SortByAttributeScore(SubSeq(rows, 1, i - 1) \o SubSeq(rows, i + 1, Len(rows)))

\* _attribute_prefilter
_attribute_prefilter(original, only_in_stock, limit) ==
    LET original_attrs == _extract_attributes(original)
        all_products == IF only_in_stock THEN get_products_in_stock(DEFAULT_MIN_STOCK)
                        ELSE get_all_active_products
        kept == SelectSeq(all_products,
                    LAMBDA product :
                        /\ product.id # original.id
                        /\ AboveMinimumRelevance(
                               _compute_attribute_score(original_attrs,
                                                        _extract_attributes(product))))
        scored == [i \in 1..Len(kept) |->
                      WithNetAvailable(
                          kept[i] @@ [attribute_score |->
                              _compute_attribute_score(original_attrs,
                                                       _extract_attributes(kept[i]))],
                          only_in_stock)]
    IN  Take(SortByAttributeScore(scored), limit)

\* Phase 1 of find_smart_alternatives for a product of the catalog.
AttributePrefilter(product_id, only_in_stock) ==
    /\ get_product_by_id(product_id) # NoRow
    /\ attrOriginal' = get_product_by_id(product_id)
    /\ attrScored' = [called |-> TRUE, only_in_stock |-> only_in_stock,
                      results |-> _attribute_prefilter(get_product_by_id(product_id),
                                                       only_in_stock, 20)]

\* Catalogs the ranker is explored on: two products of any category, name,
\* finish and thickness, the second with or without stock.
AttrCategories == {"madeirado", "unicolor", "outro", "NULL"}

AttrNames == {<<"o", "a", "k">>, <<"n", "o", "g", "a", "l", " ", "n", "e", "v", "e">>, <<"n", "e", "v", "e">>, <<"c", "i", "n", "z", "a">>, <<"x">>}

AttrFinishes == {<<>>, <<"M", "a", "t", "t">>, <<"s", "o", "f", "t">>, <<"l", "i", "s", "o">>}

AttrThicknesses == {NullQty, 15, 18}

AttrProduct(id, category, name, finish, thickness) ==
    [id |-> id, brand |-> <<"D">>, product_name |-> name,
     product_code |-> <<"P", Digits[id + 1]>>, thickness_mm |-> thickness,
     finish |-> finish, category |-> category]

AttrStockRow(id, quantity_available) ==
    [product_id |-> id, location |-> PRIMARY_LOCATION,
     quantity_available |-> quantity_available, quantity_reserved |-> 0]

InitAttr ==
    /\ InitOrch
    /\ \E c1 \in AttrCategories, n1 \in AttrNames, f1 \in AttrFinishes,
          t1 \in AttrThicknesses,
          c2 \in AttrCategories, n2 \in AttrNames \ {<<"x">>},
          f2 \in {<<>>, <<"M", "a", "t", "t">>}, t2 \in {NullQty, 15} :
          products = {AttrProduct(1, c1, n1, f1, t1), AttrProduct(2, c2, n2, f2, t2)}
    /\ nextProductId = 3
    /\ direct_equivalences = {}
    /\ preloaded = FALSE
    /\ lastInsert = "none"
    /\ \E q \in {0, 5} : stock = <<AttrStockRow(1, 5), AttrStockRow(2, q)>>
    /\ fuzzy_cache = NoCache
    /\ searchQuery = <<>>
    /\ searchResult = NotCalled
    /\ attrOriginal = NoRow
    /\ attrScored = NotCalled
    /\ InitRest

NextAttr ==
    \/ \E id \in 1..2 :
          AttributePrefilter(id, TRUE) /\ UNCHANGED <<orchVars, storeVars, searchVars, restVars>>
    \/ \E id \in 1..2 :
          AttributePrefilter(id, FALSE) /\ UNCHANGED <<orchVars, storeVars, searchVars, restVars>>

SpecAttr == InitAttr /\ [][NextAttr]_vars

----------------------------------------------------------------------------
(* Attribute ranker with its cache: smart_alternatives_service.find_smart_alternatives *)

\* Largest similarity_cache.id the exploration hands out.
MaxCacheId == 2

\* JSON values of a ranking response.  Numbers are held in hundredths (index 1
\* is 100, score 0.85 is 85, score 85 is 8500); of a string or a list only
\* its emptiness matters, v = 0 standing for the empty one.
Absent == [t |-> "absent", v |-> 0]

JNum(hundredths) == [t |-> "num", v |-> hundredths]

JStr(v) == [t |-> "str", v |-> v]

JList(v) == [t |-> "list", v |-> v]

\* Python truth value of a JSON value (None, 0, "" and [] are false).
Truthy(x) == x.t # "absent" /\ x.v # 0

\* a or b
Or(a, b) == IF Truthy(a) THEN a ELSE b

\* The justification texts: of a response, of the fallback, and the empty one.
ResponseJustification == <<"texto curto">>

GenericJustification(category) == <<"Similar por categoria (", category, ") e atributos.">>

\* round(x, 2) of a number held in ten-thousandths, in hundredths (to nearest).
Round2(v) == (v + 50) \div 100

\* One entry of the loop of lines 351-383.  The outcome is "raise" (an
\* exception inside the try), "skip" (index out of range) or "merge".
MergeEntry(score_entry, candidates) ==
    IF ~score_entry.object THEN [outcome |-> "raise"]     \* no method get
    ELSE
    LET idxv == Or(Or(score_entry.index, score_entry.candidato), JNum(0))
        simv == Or(Or(Or(score_entry.similarity_score, score_entry.similaridade_visual),
                      score_entry.score), JNum(0))
        sim_score == IF simv.t = "num" /\ simv.v > 100 THEN JNum(Round2(simv.v)) ELSE simv
        justv == Or(Or(Or(score_entry.justification, score_entry.justificativa),
                       score_entry.reason), JStr(0))
    IN  IF idxv.t # "num" THEN [outcome |-> "raise"]      \* str - 1, list - 1
        ELSE IF ~(0 <= idxv.v - 100 /\ idxv.v - 100 < 100 * Len(candidates))
        THEN [outcome |-> "skip"]
        ELSE IF idxv.v % 100 # 0 THEN [outcome |-> "raise"]   \* candidates[0.5]
        ELSE IF sim_score.t # "num" THEN [outcome |-> "raise"] \* round of a str or list
        ELSE LET c == candidates[idxv.v \div 100]
                 kept == [k \in (DOMAIN c) \ {"attribute_score"} |-> c[k]]
             IN  [outcome |-> "merge",
                  result |-> [similarity_score |-> sim_score.v,
                              justification |-> IF justv.t = "list" THEN <<"list">>
                                                ELSE IF justv.v = 0 THEN <<>>
                                                ELSE ResponseJustification,
                              justification_type |-> justv.t] @@ kept]

\* The loop of lines 351-383 over the parsed array.
RECURSIVE MergeEntries(_, _)
MergeEntries(scores, candidates) ==
    IF scores = <<>> THEN [ok |-> TRUE, results |-> <<>>]
    ELSE LET first == MergeEntry(Head(scores), candidates)
             rest == MergeEntries(Tail(scores), candidates)
         IN  IF first.outcome = "raise" \/ ~rest.ok THEN [ok |-> FALSE, results |-> <<>>]
             ELSE IF first.outcome = "skip" THEN rest
             ELSE [ok |-> TRUE, results |-> <<first.result>> \o rest.results]

\* _claude_rank_alternatives.  The reply is what happens behind
\* client.messages.create: no key configured, an exception of the client, a
\* reply without a text block, text that is not JSON, a JSON object or
\* scalar, or a JSON array.  Everything but a clean array ends in return [].
_claude_rank_alternatives(original, candidates, reply) ==
    IF reply.kind = "array"
    THEN LET merged == MergeEntries(reply.scores, candidates)
         IN  IF merged.ok THEN merged.results ELSE <<>>
    ELSE <<>>

\* dict(row) of a row of get_cached_similarities_for_product: SELECT sc.*, p.*
\* has two columns named id and the mapping keeps the first, the cache row's.
CachedDict(sc, joined) ==
    [id |-> sc.id, product_id_a |-> sc.product_id_a, product_id_b |-> sc.product_id_b,
     similarity_score |-> sc.similarity_score, justification |-> sc.justification]
    @@ joined

\* The rows of get_cached_similarities_for_product before ORDER BY.
CachedRows(product_id, min_score) ==
    UNION { LET other == IF sc.product_id_a = product_id THEN sc.product_id_b
                         ELSE sc.product_id_a
            IN  UNION { {CachedDict(sc, JoinStock(p)[i]) : i \in 1..Len(JoinStock(p))} :
                        p \in {q \in products : q.id = other} }
          : sc \in {c \in similarity_cache :
                       /\ c.product_id_a = product_id \/ c.product_id_b = product_id
                       /\ c.similarity_score >= min_score} }

\* get_cached_similarities_for_product: the orders ORDER BY similarity_score
\* DESC allows (rows of equal score come in any order).
get_cached_similarities_for_product(product_id, min_score) ==
    LET rows == CachedRows(product_id, min_score)
        n == Cardinality(rows)
    IN  {s \in [1..n -> rows] :
            /\ \A i \in 1..n, j \in 1..n : i # j => s[i] # s[j]
            /\ \A i \in 1..n, j \in 1..n :
                  i < j => s[i].similarity_score >= s[j].similarity_score}

\* list.sort(key=similarity_score, reverse=True): stable, highest score first.
RECURSIVE SortBySimilarity(_)
SortBySimilarity(rows) ==
    IF rows = <<>> THEN <<>>
    ELSE LET i == CHOOSE i \in 1..Len(rows) :
                    /\ \A j \in 1..Len(rows) :
                          rows[i].similarity_score >= rows[j].similarity_score
                    /\ \A j \in 1..(i - 1) :
                          rows[j].similarity_score < rows[i].similarity_score
         IN  <<rows[i]>> \o
             SortBySimilarity(SubSeq(rows, 1, i - 1) \o SubSeq(rows, i + 1, Len(rows)))

\* value or 0 of a quantity column
OrZero(q) == IF q = NullQty THEN 0 ELSE q

\* _filter_and_format_cached
_filter_and_format_cached(cached, only_in_stock) ==
    LET net(product) == OrZero(product.quantity_available) - OrZero(product.quantity_reserved)
        kept == SelectSeq(cached, LAMBDA product :
                    ~(only_in_stock /\ net(product) < DEFAULT_MIN_STOCK))
    IN  SortBySimilarity(
            [i \in 1..Len(kept) |->
                [net_available |-> net(kept[i]),
                 in_stock |-> net(kept[i]) >= DEFAULT_MIN_STOCK] @@ kept[i]])

\* queries.save_similarity_cache: INSERT OR REPLACE on UNIQUE(product_id_a,
\* product_id_b), the pair as given.
save_similarity_cache(table, product_id_a, product_id_b, score, justification) ==
    [rows |-> {r \in table.rows :
                  ~(r.product_id_a = product_id_a /\ r.product_id_b = product_id_b)}
              \cup {[id |-> table.next, product_id_a |-> product_id_a,
                     product_id_b |-> product_id_b, similarity_score |-> score,
                     justification |-> justification]},
     next |-> table.next + 1]

\* queries.get_cached_similarity: the rows fetchone may deliver for the pair,
\* asked in either order (no row: None).
get_cached_similarity(product_id_a, product_id_b) ==
    {sc \in similarity_cache :
        \/ sc.product_id_a = product_id_a /\ sc.product_id_b = product_id_b
        \/ sc.product_id_a = product_id_b /\ sc.product_id_b = product_id_a}

\* The loop of lines 154-157.  Binding a list as the justification makes
\* sqlite3 raise; the rows saved before it stay (each save commits).
RECURSIVE SaveAll(_, _, _)
SaveAll(table, product_id, ranked) ==
    IF ranked = <<>> THEN [raised |-> FALSE, table |-> table]
    ELSE LET r == Head(ranked)
         IN  IF r.justification_type = "list" THEN [raised |-> TRUE, table |-> table]
             ELSE SaveAll(save_similarity_cache(table, product_id, r.id, r.similarity_score,
                                                r.justification),
                          product_id, Tail(ranked))

\* Lines 146-151: the attribute-only results.
AttributeOnly(candidates) ==
    [i \in 1..Len(candidates) |->
        [similarity_score |-> candidates[i].attribute_score,
         justification |-> GenericJustification(candidates[i].category),
         justification_type |-> "str"] @@ candidates[i]]

ErrorNotFound == [error |-> <<"Produto nao encontrado.">>]

ErrorNoCandidate(category) ==
    [error |-> <<"Nenhum produto similar encontrado em estoque na categoria '", category, "'.">>]

\* find_smart_alternatives up to the ranking call (lines 124-141), given the
\* order the cache query delivered: the cached rows that survive, the
\* original and the pre-filtered candidates (also worked out for a call the
\* cache answers, which never gets to them).
SmartPhase1(product_id, only_in_stock, cached) ==
    LET original == get_product_by_id(product_id)
    IN  [hit |-> _filter_and_format_cached(cached, only_in_stock),
         original |-> original,
         candidates |-> IF original = NoRow THEN <<>>
                        ELSE _attribute_prefilter(original, only_in_stock, 20)]

\* The call gets as far as the ranking call of Phase 2.
ReachesRanking(phase1) ==
    phase1.hit = <<>> /\ phase1.original # NoRow /\ phase1.candidates # <<>>

\* The rest of find_smart_alternatives without the test of line 140: an
\* empty candidate list goes on to the ranking call.
SmartFinishNoCandidateTest(product_id, max_results, phase1, reply) ==
    LET table == [rows |-> similarity_cache, next |-> nextCacheId]
        merged == _claude_rank_alternatives(phase1.original, phase1.candidates, reply)
        ranked == IF merged = <<>> THEN AttributeOnly(phase1.candidates) ELSE merged
        saved == SaveAll(table, product_id, ranked)
        base == [raised |-> FALSE, from_cache |-> FALSE, ranking_called |-> FALSE,
                 phase2 |-> FALSE, merged |-> 0, results |-> <<>>, table |-> table]
    IN  IF phase1.hit # <<>>
        THEN [base EXCEPT !.from_cache = TRUE, !.results = Take(phase1.hit, max_results)]
        ELSE IF phase1.original = NoRow
        THEN [base EXCEPT !.results = <<ErrorNotFound>>]
        ELSE [base EXCEPT !.phase2 = TRUE,
                          !.ranking_called = (reply.kind # "no_key"),
                          !.merged = Len(merged),
                          !.raised = saved.raised,
                          !.table = saved.table,
                          !.results = IF saved.raised THEN <<>>
                                      ELSE Take(SortBySimilarity(ranked), max_results)]

\* The rest of find_smart_alternatives, given the outcome of the ranking
\* call.  The value holds what the call returned, the table it left and what
\* it went through.
SmartFinish(product_id, max_results, phase1, reply) ==
    LET table == [rows |-> similarity_cache, next |-> nextCacheId]
        merged == _claude_rank_alternatives(phase1.original, phase1.candidates, reply)
        ranked == IF merged = <<>> THEN AttributeOnly(phase1.candidates) ELSE merged
        saved == SaveAll(table, product_id, ranked)
        base == [raised |-> FALSE, from_cache |-> FALSE, ranking_called |-> FALSE,
                 phase2 |-> FALSE, merged |-> 0, results |-> <<>>, table |-> table]
    IN  IF phase1.hit # <<>>
        THEN [base EXCEPT !.from_cache = TRUE, !.results = Take(phase1.hit, max_results)]
        ELSE IF phase1.original = NoRow
        THEN [base EXCEPT !.results = <<ErrorNotFound>>]
        ELSE IF phase1.candidates = <<>>
        THEN [base EXCEPT !.results = <<ErrorNoCandidate(phase1.original.category)>>]
        ELSE [base EXCEPT !.phase2 = TRUE,
                          !.ranking_called = (reply.kind # "no_key"),
                          !.merged = Len(merged),
                          !.raised = saved.raised,
                          !.table = saved.table,
                          !.results = IF saved.raised THEN <<>>
                                      ELSE Take(SortBySimilarity(ranked), max_results)]

\* find_smart_alternatives
find_smart_alternatives(product_id, max_results, only_in_stock, cached, reply) ==
    SmartFinish(product_id, max_results, SmartPhase1(product_id, only_in_stock, cached), reply)

----------------------------------------------------------------------------
(* Stock reload from the bundled sheet: preload_data.preload_stock *)

\* _thickness_conflicts (whole millimetres: a difference above 0.1 is any difference).
_thickness_conflicts(parsed_thickness, candidate_thickness) ==
    /\ parsed_thickness # NullQty
    /\ candidate_thickness # NullQty
    /\ Abs(parsed_thickness - candidate_thickness) > 0

\* The set of words of a name without the connectives.
MeaningfulWords(name) ==
    {SplitWords(name, <<>>)[i] : i \in 1..Len(SplitWords(name, <<>>))}
    \ {<<"D", "E">>, <<"D", "O">>, <<"D", "A">>, <<"E">>, <<"C", "O", "M">>, <<"E", "M">>}

\* _build_brand_cache: the active products of a brand, in id order.
_build_brand_cache(brand) == SelectSeq(ById(products), LAMBDA p : upper(p.brand) = brand)

\* _match_existing_product with the brand cache: the id of the match, 0 for None.
_match_existing_product(parsed, brand) ==
    LET candidates == _build_brand_cache(upper(brand))
        exact == {i \in 1..Len(candidates) :
                     /\ upper(candidates[i].product_name) = parsed.short_name
                     /\ ~_thickness_conflicts(parsed.thickness_mm, candidates[i].thickness_mm)}
        loose == {i \in 1..Len(candidates) :
                     /\ ~_thickness_conflicts(parsed.thickness_mm, candidates[i].thickness_mm)
                     /\ LET candidate_name == upper(candidates[i].product_name)
                            short_words == MeaningfulWords(parsed.short_name)
                            candidate_words == MeaningfulWords(candidate_name)
                            common == short_words \cap candidate_words
                        IN  \/ Contains(parsed.short_name, candidate_name)
                            \/ Contains(candidate_name, parsed.short_name)
                            \/ Cardinality(common) >= 2
                            \/ /\ Cardinality(short_words) = 1
                               /\ Cardinality(candidate_words) = 1
                               /\ common # {}}
        first(hits) == candidates[CHOOSE i \in hits : \A j \in hits : i <= j].id
    IN  IF parsed.short_name = <<>> THEN 0
        ELSE IF exact # {} THEN first(exact)
        ELSE IF loose # {} THEN first(loose)
        ELSE 0

\* _update_product_details: thickness and finish are overwritten by the
\* parsed ones when the sheet's name gives them, the code by the ERP code.
\* A code another product holds breaks UNIQUE: the row fails, nothing changes.
_update_product_details(rows, product_id, parsed, erp_code, update_product_code) ==
    LET old == CHOOSE p \in rows : p.id = product_id
        new == [old EXCEPT
                   !.thickness_mm = IF parsed.thickness_mm \notin {NullQty, 0}
                                    THEN parsed.thickness_mm ELSE @,
                   !.finish = IF parsed.finish # <<>> THEN parsed.finish ELSE @,
                   !.product_code = IF update_product_code /\ erp_code # <<>>
                                    THEN erp_code ELSE @]
    IN  IF \E q \in rows : q.id # product_id /\ q.product_code = new.product_code
        THEN [failed |-> TRUE, rows |-> rows]
        ELSE [failed |-> FALSE, rows |-> (rows \ {old}) \cup {new}]

\* _upsert_stock without its SELECT: every write inserts a row.
_upsert_stockInsertOnly(rows, product_id, quantity, location) ==
    Append(rows, [product_id |-> product_id, location |-> location,
                  quantity_available |-> quantity, quantity_reserved |-> 0])

\* _upsert_stock
_upsert_stock(rows, product_id, quantity, location) ==
    IF \E i \in 1..Len(rows) : rows[i].product_id = product_id /\ rows[i].location = location
    THEN [i \in 1..Len(rows) |->
             IF rows[i].product_id = product_id /\ rows[i].location = location
             THEN [rows[i] EXCEPT !.quantity_available = quantity]
             ELSE rows[i]]
    ELSE Append(rows, [product_id |-> product_id, location |-> location,
                       quantity_available |-> quantity, quantity_reserved |-> 0])

\* The record of the quantities last written, after a write of the quantity
\* for (product, location); count is the number of writes the pair has had.
Written(writes, product_id, location, quantity) ==
    LET same == {w \in writes : w.product_id = product_id /\ w.location = location}
        before == IF same = {} THEN 0 ELSE (CHOOSE w \in same : TRUE).count
    IN  (writes \ same)
        \cup {[product_id |-> product_id, location |-> location, quantity |-> quantity,
               count |-> IF before < 2 THEN before + 1 ELSE 2]}

\* The location of a data row (lines 449-451): the Empresa column of the
\* Central de Trocas sheet, the primary store for the store's own sheet.
RowLocation(row) ==
    IF "location" \in DOMAIN row THEN row.location ELSE PRIMARY_LOCATION

\* One data row of _preload_stock_file (lines 471-496), the name already
\* parsed: a matched product is updated and its stock upserted; an unmatched
\* one is created with the stock.
RECURSIVE PreloadStockRows(_, _)
PreloadStockRows(st, rows) ==
    IF rows = <<>> THEN st
    ELSE LET row == Head(rows)
             existing_id == _match_existing_product(row, row.brand)
             updated == _update_product_details(st.products, existing_id, row, <<>>, TRUE)
             created == NewProduct(st.next,
                            [brand |-> upper(row.brand), product_name |-> row.short_name,
                             product_code |-> _generate_product_code(upper(row.brand), row.short_name),
                             thickness_mm |-> row.thickness_mm, finish |-> row.finish,
                             category |-> _infer_category(row.short_name)])
         IN  PreloadStockRows(
                 IF existing_id # 0
                 THEN (IF updated.failed THEN st
                       ELSE [st EXCEPT !.products = updated.rows,
                                       !.stock = _upsert_stock(st.stock, existing_id,
                                                     row.quantity, RowLocation(row)),
                                       !.writes = Written(@, existing_id, RowLocation(row),
                                                          row.quantity)])
                 ELSE IF \E q \in st.products : q.product_code = created.product_code
                 THEN st
                 ELSE [st EXCEPT !.products = @ \cup {created},
                                 !.next = @ + 1,
                                 !.stock = _upsert_stock(st.stock, st.next, row.quantity,
                                                         RowLocation(row)),
                                 !.writes = Written(@, st.next, RowLocation(row),
                                                    row.quantity)],
                 Tail(rows))

\* The button "Recarregar Estoque": DELETE FROM stock, then preload_stock
\* over the sheet as it is now.
ReloadStock(rows) ==
    LET st == PreloadStockRows([products |-> products, next |-> nextProductId, stock |-> <<>>,
                                writes |-> {}],
                               rows)
    IN  /\ st.next <= MaxProductId + 1
        /\ products' = st.products
        /\ nextProductId' = st.next
        /\ stock' = st.stock
        /\ UNCHANGED <<direct_equivalences, preloaded, lastInsert>>

----------------------------------------------------------------------------
(* The ranker explored over a small catalog: calls, stock reloads *)

\* One entry of a ranking reply with the documented field names.
Entry(index, similarity_score, justification) ==
    [object |-> TRUE, index |-> index, candidato |-> Absent,
     similarity_score |-> similarity_score, similaridade_visual |-> Absent,
     score |-> Absent, justification |-> justification, justificativa |-> Absent,
     reason |-> Absent]

\* Outcomes of the ranking call the exploration draws from.
SmartReplies ==
    { [kind |-> "no_key", scores |-> <<>>],
      [kind |-> "client_exception", scores |-> <<>>],
      [kind |-> "invalid_json", scores |-> <<>>],
      [kind |-> "array", scores |-> <<Entry(JNum(100), JNum(8500), JStr(1))>>],
      [kind |-> "array", scores |-> <<Entry(JNum(900), JNum(85), JStr(1))>>],
      [kind |-> "array", scores |-> <<Entry(JNum(100), JStr(1), JStr(1))>>],
      [kind |-> "array", scores |-> <<Entry(JNum(100), JNum(85), JList(1))>>],
      [kind |-> "array", scores |-> <<Entry(JNum(100), JNum(15000), JStr(1))>>],
      [kind |-> "array", scores |-> <<[Entry(Absent, Absent, Absent) EXCEPT !.object = FALSE]>>],
      [kind |-> "array", scores |-> <<[Entry(Absent, Absent, JStr(1)) EXCEPT
                                          !.candidato = JNum(100), !.score = JNum(20)]>>] }

\* No ranking call was made.
NoReply == [kind |-> "not_called", scores |-> <<>>]

\* The "id" each returned payload carries (0 for an error payload).
ResultIds(results) ==
    [i \in 1..Len(results) |->
        IF "error" \in DOMAIN results[i] THEN 0 ELSE results[i].id]

\* What the call before returned, when it was made with the same arguments
\* and the store was not changed in between.
SameCallBefore(product_id, max_results, only_in_stock) ==
    IF /\ smartLast.called
       /\ ~dataChanged
       /\ smartLast.product_id = product_id
       /\ smartLast.max_results = max_results
       /\ smartLast.only_in_stock = only_in_stock
    THEN [called |-> TRUE, raised |-> smartLast.raised, ids |-> ResultIds(smartLast.results)]
    ELSE NotCalled

\* A call of find_smart_alternatives: the cache query delivers its rows in
\* one of the orders it may, and the ranking call, if it is reached, has one
\* of its outcomes.  The ghost record keeps the arguments, what the call
\* returned, what the store held when it began and the call made before it.
FindSmartAlternatives(product_id, max_results, only_in_stock) ==
    \E cached \in get_cached_similarities_for_product(product_id, 30) :
      \E phase1 \in {SmartPhase1(product_id, only_in_stock, cached)} :
        \E reply \in IF ReachesRanking(phase1) THEN SmartReplies ELSE {NoReply} :
          \E r \in {SmartFinish(product_id, max_results, phase1, reply)} :
            /\ r.table.next <= MaxCacheId + 1
            /\ similarity_cache' = r.table.rows
            /\ nextCacheId' = r.table.next
            /\ smartLast' =
                  [called |-> TRUE, product_id |-> product_id, max_results |-> max_results,
                   only_in_stock |-> only_in_stock,
                   before |-> SameCallBefore(product_id, max_results, only_in_stock),
                   resolved |-> phase1.original # NoRow,
                   candidates |-> phase1.candidates,
                   survivors |-> Len(phase1.hit),
                   raised |-> r.raised, from_cache |-> r.from_cache,
                   ranking_called |-> r.ranking_called, phase2 |-> r.phase2,
                   merged |-> r.merged, results |-> r.results]
            /\ dataChanged' = FALSE
            /\ UNCHANGED <<storeVars>>

\* A reload of the stock sheet between two calls.
ReloadStockSheet(rows) ==
    /\ ReloadStock(rows)
    /\ dataChanged' = TRUE
    /\ UNCHANGED <<similarity_cache, nextCacheId, smartLast>>

\* The catalogs of the exploration: a wood decor and a board that is either
\* of the catch-all category or a wood decor too.
RankProduct(id, name, category, finish, thickness) ==
    [id |-> id, brand |-> <<"D">>, product_name |-> name,
     product_code |-> <<"P", Digits[id + 1]>>, thickness_mm |-> thickness,
     finish |-> finish, category |-> category]

RankCatalogs ==
    { {RankProduct(1, <<"o", "a", "k">>, "madeirado", <<"M", "a", "t", "t">>, 15),
       RankProduct(2, <<"x">>, "outro", <<"s", "o", "f", "t">>, 18)},
      {RankProduct(1, <<"o", "a", "k">>, "madeirado", <<"M", "a", "t", "t">>, 15),
       RankProduct(2, <<"x">>, "madeirado", <<"s", "o", "f", "t">>, 15)} }

\* Data rows of the stock sheet, parsed.
StockSheetRow(short_name, finish, quantity) ==
    [brand |-> <<"D">>, short_name |-> short_name, thickness_mm |-> NullQty,
     finish |-> finish, quantity |-> quantity]

\* The stock sheets of the exploration.
StockSheets ==
    { <<StockSheetRow(<<"O", "A", "K">>, <<>>, 5), StockSheetRow(<<"X">>, <<>>, 5)>>,
      <<StockSheetRow(<<"O", "A", "K">>, <<>>, 0), StockSheetRow(<<"X">>, <<"L", "i", "s", "o">>, 5)>>,
      <<StockSheetRow(<<"X">>, <<>>, 5)>> }

InitRanker ==
    /\ InitOrch
    /\ products \in RankCatalogs
    /\ nextProductId = 3
    /\ direct_equivalences = {}
    /\ preloaded = FALSE
    /\ lastInsert = "none"
    /\ stock = <<>>
    /\ fuzzy_cache = NoCache
    /\ searchQuery = <<>>
    /\ searchResult = NotCalled
    /\ attrOriginal = NoRow
    /\ attrScored = NotCalled
    /\ InitRest

NextRanker ==
    \/ \E product_id \in 1..3, max_results \in {1, 3} :
          FindSmartAlternatives(product_id, max_results, TRUE)
          /\ UNCHANGED <<orchVars, searchVars, attrVars, moreVars>>
    \/ \E product_id \in 1..3, max_results \in {1, 3} :
          FindSmartAlternatives(product_id, max_results, FALSE)
          /\ UNCHANGED <<orchVars, searchVars, attrVars, moreVars>>
    \/ \E rows \in StockSheets :
          ReloadStockSheet(rows) /\ UNCHANGED <<orchVars, searchVars, attrVars, moreVars>>

SpecRanker == InitRanker /\ [][NextRanker]_vars

----------------------------------------------------------------------------
(* Claims about the equivalence store, checked under SpecStore *)

ProductIds == {p.id : p \in products}

EquivalentIds(product_id) == {e.id : e \in get_equivalents(product_id)}

\* C9: after any sequence of equivalence insertions by spreadsheet import or
\* bundled preload, in either argument order, every stored pair has the lower
\* product id first (a pair of a product with itself has the one id twice),
\* no two rows hold the same unordered pair, and for every stored pair of
\* active products each is among the equivalents of the other.
C9_CanonicalSymmetric ==
    /\ \A de \in direct_equivalences : de.product_id_a <= de.product_id_b
    /\ \A d1 \in direct_equivalences, d2 \in direct_equivalences :
          {d1.product_id_a, d1.product_id_b} = {d2.product_id_a, d2.product_id_b}
          => d1 = d2
    /\ \A de \in direct_equivalences :
          {de.product_id_a, de.product_id_b} \subseteq ProductIds
          => /\ de.product_id_b \in EquivalentIds(de.product_id_a)
             /\ de.product_id_a \in EquivalentIds(de.product_id_b)

\* The last insertion was handed the higher id first, and rows of both paths
\* are stored, one of them joining two different products.
C9_Witness ==
    /\ lastInsert = "descending"
    /\ \E de \in direct_equivalences : de.equivalence_source = PreloadSource
    /\ \E de \in direct_equivalences :
          /\ de.equivalence_source \in RowSources
          /\ de.product_id_a < de.product_id_b
          /\ {de.product_id_a, de.product_id_b} \subseteq ProductIds

----------------------------------------------------------------------------
(* Claims about the text matcher, checked under SpecSearch *)

\* C8: for every product P with a recorded code, search(P.code) returns
\* exactly one result, P itself, with score 1.0 and type "exact_code",
\* whatever other products the substring or fuzzy strategies would match.
C8_ExactCodeSearch ==
    [][\A p \in products :
          Search(p.product_code)
          => /\ ~searchResult'.raised
             /\ Len(searchResult'.results) = 1
             /\ searchResult'.results[1].id = p.id
             /\ searchResult'.results[1].match_score = ScoreScale
             /\ searchResult'.results[1].match_type = "exact_code"]_vars

----------------------------------------------------------------------------
(* Claims about the Phase-1 attribute ranker, checked under SpecAttr *)

\* The candidate's category differs from the original's and neither is the
\* catch-all category.
OtherMainCategory(original, candidate) ==
    /\ original.category # candidate.category
    /\ original.category # "outro"
    /\ candidate.category # "outro"

KeptIds == {attrScored.results[i].id : i \in 1..Len(attrScored.results)}

\* C10: the Phase-1 score is 0 whenever the original's category differs from
\* the candidate's and neither is the catch-all category, whatever their wood
\* family, color family, finish and thickness; the pre-filter never keeps
\* such a candidate.
C10_CategoryGate ==
    attrScored.called =>
        \A p \in products :
            OtherMainCategory(attrOriginal, p) =>
                /\ _compute_attribute_score(_extract_attributes(attrOriginal),
                                            _extract_attributes(p)) = 0
                /\ p.id \notin KeptIds

\* The pre-filter ran over all products for an original whose candidate is of
\* another main category but agrees with it in wood family, finish and
\* thickness.
C10_Witness ==
    /\ attrScored.called
    /\ ~attrScored.only_in_stock
    /\ \E p \in products :
          /\ OtherMainCategory(attrOriginal, p)
          /\ AttributeCredits(_extract_attributes(attrOriginal),
                              _extract_attributes(p)) = 50
          /\ p.id \notin KeptIds

----------------------------------------------------------------------------
(* Claims about the ranker and its cache, checked under SpecRanker *)

IsError(payload) == "error" \in DOMAIN payload

SetOf(seq) == {seq[i] : i \in 1..Len(seq)}

\* C11: when the ranker is called twice for the same product with the same
\* arguments and no data change in between, and the first call returned
\* candidates, the second call is served from the cache, makes no ranking
\* call and returns the same candidates, whatever scores the first call
\* produced.
C11_CacheIdempotent ==
    (/\ smartLast.called
     /\ smartLast.before.called
     /\ ~smartLast.before.raised
     /\ smartLast.before.ids # <<>>
     /\ 0 \notin SetOf(smartLast.before.ids))
    => /\ ~smartLast.raised
       /\ smartLast.from_cache
       /\ ~smartLast.ranking_called
       /\ SetOf(ResultIds(smartLast.results)) = SetOf(smartLast.before.ids)

\* C12: whatever the ranking call returns or raises, find_smart_alternatives
\* does not raise, and when no candidate was merged from the reply it returns
\* the pre-filtered candidates with their Phase-1 scores and the generic
\* justification.
C12_RankingFailureSoft ==
    (smartLast.called /\ smartLast.phase2)
    => /\ ~smartLast.raised
       /\ smartLast.merged = 0
          => smartLast.results =
                Take(SortBySimilarity(AttributeOnly(smartLast.candidates)),
                     smartLast.max_results)

\* The call ended in one error payload and did not raise.
OneErrorPayload ==
    /\ ~smartLast.raised
    /\ Len(smartLast.results) = 1
    /\ IsError(smartLast.results[1])

\* C13 as stated: if the product id does not resolve, or no stock-eligible
\* candidate passes the pre-filter, the call returns one error payload and
\* does not raise, whatever the similarity cache holds for the id.
C13_ErrorPayloadWhateverCache ==
    (smartLast.called /\ (~smartLast.resolved \/ smartLast.candidates = <<>>))
    => OneErrorPayload

\* C13 amended: if no cached entry of the id scored at least 0.30 survives
\* the stock filter, and the product id does not resolve or no
\* stock-eligible candidate passes the pre-filter, the call returns one
\* error payload and does not raise.
C13_ErrorPayload ==
    (/\ smartLast.called
     /\ smartLast.survivors = 0
     /\ ~smartLast.resolved \/ smartLast.candidates = <<>>)
    => OneErrorPayload

\* A resolved product without a candidate passing the pre-filter, while the
\* cache holds an entry of the product that does not survive.
C13_Witness ==
    /\ smartLast.called
    /\ smartLast.resolved
    /\ smartLast.candidates = <<>>
    /\ smartLast.survivors = 0
    /\ \E sc \in similarity_cache : sc.product_id_a = smartLast.product_id
    /\ OneErrorPayload

\* C19: the cache holds at most one entry per unordered pair of products,
\* and a lookup of (A,B) and of (B,A) delivers the same entry.
C19_SymmetricKey ==
    /\ \A r1 \in similarity_cache, r2 \in similarity_cache :
          {r1.product_id_a, r1.product_id_b} = {r2.product_id_a, r2.product_id_b}
          => r1 = r2
    /\ \A a \in ProductIds, b \in ProductIds :
          /\ get_cached_similarity(a, b) = get_cached_similarity(b, a)
          /\ Cardinality(get_cached_similarity(a, b)) <= 1

----------------------------------------------------------------------------
(* Direct-equivalence lookup (src/services/equivalence_service.py) *)

\* The key with its two parts exchanged: (confidence, net_available).
AvailabilityKeyGeqConfidenceFirst(x, y) ==
    \/ x.confidence > y.confidence
    \/ x.confidence = y.confidence /\ x.net_available >= y.net_available

\* The sort key of line 44: (net_available, confidence).
AvailabilityKeyGeq(x, y) ==
    \/ x.net_available > y.net_available
    \/ x.net_available = y.net_available /\ x.confidence >= y.confidence

\* results.sort(key=..., reverse=True): stable, largest key first.
RECURSIVE SortByAvailability(_)
SortByAvailability(rows) ==
    IF rows = <<>> THEN <<>>
    ELSE LET i == CHOOSE i \in 1..Len(rows) :
                    /\ \A j \in 1..Len(rows) : AvailabilityKeyGeq(rows[i], rows[j])
                    /\ \A j \in 1..(i - 1) : ~AvailabilityKeyGeq(rows[j], rows[i])
         IN  <<rows[i]>> \o
             SortByAvailability(SubSeq(rows, 1, i - 1) \o SubSeq(rows, i + 1, Len(rows)))

\* A thickness that is neither NULL nor 0.
KnownThickness(thickness_mm) == thickness_mm # NullQty /\ thickness_mm # 0

\* find_direct_equivalents, rows being what get_equivalents fetched.
find_direct_equivalents(product_id, require_same_thickness, only_in_stock, rows) ==
    LET original == get_product_by_id(product_id)
        original_thickness == IF original = NoRow THEN NullQty ELSE original.thickness_mm
        net(product) == OrZero(product.quantity_available) - OrZero(product.quantity_reserved)
        kept == SelectSeq(rows, LAMBDA product :
                    /\ ~(/\ require_same_thickness /\ KnownThickness(original_thickness)
                         /\ KnownThickness(product.thickness_mm)
                         /\ product.thickness_mm # original_thickness)
                    /\ ~(only_in_stock /\ net(product) < DEFAULT_MIN_STOCK))
    IN  IF rows = <<>> THEN <<>>
        ELSE SortByAvailability(
                [i \in 1..Len(kept) |->
                    [net_available |-> net(kept[i]),
                     in_stock |-> net(kept[i]) >= DEFAULT_MIN_STOCK] @@ kept[i]])

\* The orders in which a query without ORDER BY may deliver its rows.
FetchOrders(rows) ==
    LET n == Cardinality(rows)
    IN  {s \in [1..n -> rows] : \A i \in 1..n, j \in 1..n : i # j => s[i] # s[j]}

\* A call of find_direct_equivalents by a caller.
FindDirectEquivalents(product_id, require_same_thickness, only_in_stock) ==
    /\ \E rows \in FetchOrders(get_equivalents(product_id)) :
          equivLast' = [called |-> TRUE, product_id |-> product_id,
                        require_same_thickness |-> require_same_thickness,
                        only_in_stock |-> only_in_stock,
                        rows |-> {rows[k] : k \in 1..Len(rows)},
                        results |-> find_direct_equivalents(
                                       product_id, require_same_thickness,
                                       only_in_stock, rows)]
    /\ UNCHANGED <<storeVars, rankVars, webLast, tapeLast, availLast, lateVars>>

\* One row of import_equivalences whose sheet has the column confidence.
ImportEquivalenceRowConfidence(code_a, code_b, source, confidence) ==
    LET product_a == get_product_by_code(strip(code_a))
        product_b == get_product_by_code(strip(code_b))
    IN  /\ IF product_a = NoRow \/ product_b = NoRow
           THEN UNCHANGED <<direct_equivalences, lastInsert>>
           ELSE /\ direct_equivalences' =
                       InsertOrIgnore(direct_equivalences, product_a.id, product_b.id,
                                      source, confidence)
                /\ lastInsert' = ArgumentOrder(product_a.id, product_b.id)
        /\ UNCHANGED <<products, nextProductId, preloaded, stock>>

\* The catalog of the exploration: three boards, the third of another
\* thickness than the first.
EquivCatalog ==
    {RankProduct(1, <<"o", "a", "k">>, "madeirado", <<>>, 15),
     RankProduct(2, <<"x">>, "madeirado", <<>>, 15),
     RankProduct(3, <<"y">>, "madeirado", <<>>, 18)}

\* (code_b, confidence in hundredths) of the rows of an equivalences sheet
\* whose code_a is P1.
SheetEquivalences ==
    { <<<<"P", "2">>, 50>>, <<<<"P", "2">>, 100>>, <<<<"P", "3">>, 100>>,
      <<<<"P", "9">>, 100>> }

\* (product_code, location) of the rows of a stock sheet.
EquivStockSlots ==
    { <<<<"P", "2">>, PRIMARY_LOCATION>>, <<<<"P", "3">>, PRIMARY_LOCATION>>,
      <<<<"P", "3">>, "filial">> }

\* (quantity_available, quantity_reserved) of the rows of a stock sheet.
EquivQuantities == { <<12, 0>>, <<12, 7>>, <<0, 0>> }

InitEquiv ==
    /\ InitOrch
    /\ products = EquivCatalog
    /\ nextProductId = 4
    /\ direct_equivalences = {}
    /\ preloaded = FALSE
    /\ lastInsert = "none"
    /\ stock = <<>>
    /\ fuzzy_cache = NoCache
    /\ searchQuery = <<>>
    /\ searchResult = NotCalled
    /\ attrOriginal = NoRow
    /\ attrScored = NotCalled
    /\ InitRest

NextEquiv ==
    \/ \E row \in SheetEquivalences :
          ImportEquivalenceRowConfidence(<<"P", "1">>, row[1], "manual", row[2])
          /\ UNCHANGED <<orchVars, searchVars, attrVars, restVars>>
    \/ \E slot \in EquivStockSlots, q \in EquivQuantities :
          ImportStockRow(slot[1], slot[2], q[1], q[2])
          /\ UNCHANGED <<orchVars, searchVars, attrVars, restVars>>
    \/ \E product_id \in 1..2, require_same_thickness \in BOOLEAN, only_in_stock \in BOOLEAN :
          FindDirectEquivalents(product_id, require_same_thickness, only_in_stock)
          /\ UNCHANGED <<orchVars, searchVars, attrVars>>

SpecEquiv == InitEquiv /\ [][NextEquiv]_vars

\* C14: the results of find_direct_equivalents are sorted by net availability
\* descending, confidence descending deciding only among equal net
\* availability; each result carries available minus reserved of its row as
\* net_available; and with the stock filter on every result has net
\* availability at or above the minimum stock.
C14_SortedByAvailability ==
    equivLast.called
    => LET results == equivLast.results
       IN  /\ \A i \in 1..Len(results), j \in 1..Len(results) :
                 i < j =>
                    \/ results[i].net_available > results[j].net_available
                    \/ /\ results[i].net_available = results[j].net_available
                       /\ results[i].confidence >= results[j].confidence
           /\ \A i \in 1..Len(results) :
                 /\ results[i].net_available =
                       OrZero(results[i].quantity_available)
                       - OrZero(results[i].quantity_reserved)
                 /\ \E row \in equivLast.rows :
                       row = [f \in DOMAIN row |-> results[i][f]]
           /\ equivLast.only_in_stock
              => \A i \in 1..Len(results) :
                    results[i].net_available >= DEFAULT_MIN_STOCK

\* A stock-filtered call returned an equivalent with net stock 12, placed by
\* its higher confidence ahead of another with net stock 12, and both ahead
\* of one with less stock whose confidence is the higher one.
C14_Witness ==
    /\ equivLast.called
    /\ equivLast.only_in_stock
    /\ ~equivLast.require_same_thickness
    /\ Len(equivLast.results) = 3
    /\ equivLast.results[1].net_available = 12
    /\ equivLast.results[2].net_available = 12
    /\ equivLast.results[1].confidence > equivLast.results[2].confidence
    /\ equivLast.results[3].net_available = 5
    /\ equivLast.results[3].confidence > equivLast.results[2].confidence

----------------------------------------------------------------------------
(* The Phase-1 score of two candidates that differ only in color family *)

\* Names of a plain-color board: an optional wood word, then a color word.
ColorPrefixes == {<<>>, <<"n", "o", "g", "a", "l", " ">>, <<"o", "a", "k", " ">>}

ColorWords == {COLOR_FAMILIES[i][1] : i \in 1..Len(COLOR_FAMILIES)}

ColorFamilyOf(word) == FamilyOf(word, COLOR_FAMILIES)

\* Product 1 is the original; products 2 and 3 are alike but for the color
\* word of their names, product 2 having the original's color family.  All
\* three are in stock.
InitColor ==
    /\ InitOrch
    /\ \E p1 \in ColorPrefixes, w1 \in ColorWords, f1 \in AttrFinishes,
          t1 \in AttrThicknesses,
          p \in ColorPrefixes, w2 \in ColorWords, w3 \in ColorWords,
          f \in AttrFinishes, t \in AttrThicknesses :
          /\ ColorFamilyOf(w2) = ColorFamilyOf(w1)
          /\ ColorFamilyOf(w3) # ColorFamilyOf(w1)
          /\ products = {AttrProduct(1, "unicolor", p1 \o w1, f1, t1),
                         AttrProduct(2, "unicolor", p \o w2, f, t),
                         AttrProduct(3, "unicolor", p \o w3, f, t)}
    /\ nextProductId = 4
    /\ direct_equivalences = {}
    /\ preloaded = FALSE
    /\ lastInsert = "none"
    /\ stock = <<AttrStockRow(1, 5), AttrStockRow(2, 5), AttrStockRow(3, 5)>>
    /\ fuzzy_cache = NoCache
    /\ searchQuery = <<>>
    /\ searchResult = NotCalled
    /\ attrOriginal = NoRow
    /\ attrScored = NotCalled
    /\ InitRest

NextColor ==
    \/ \E id \in 1..3 :
          AttributePrefilter(id, TRUE) /\ UNCHANGED <<orchVars, storeVars, searchVars, restVars>>
    \/ \E id \in 1..3 :
          AttributePrefilter(id, FALSE) /\ UNCHANGED <<orchVars, storeVars, searchVars, restVars>>

SpecColor == InitColor /\ [][NextColor]_vars

\* The Phase-1 score the last call gave the candidate id, in hundredths
\* (0 - 1 when the call did not return it).
ScoredAs(id) ==
    LET hits == {i \in 1..Len(attrScored.results) : attrScored.results[i].id = id}
    IN  IF hits = {} THEN 0 - 1
        ELSE attrScored.results[CHOOSE i \in hits : TRUE].attribute_score

\* The last call scored the candidates of product 1.
ScoredForOriginal == attrScored.called /\ attrOriginal.id = 1

\* C15 as stated: for a unicolor original with a known color family and two
\* in-stock unicolor candidates that differ only in color family, the score
\* of the candidate of the original's color family is higher than the
\* other's by exactly 0.30, and no score exceeds 1.0.
C15_ColorCreditExact ==
    ScoredForOriginal
    => /\ ScoredAs(2) - ScoredAs(3) = 30
       /\ \A i \in 1..Len(attrScored.results) :
             attrScored.results[i].attribute_score <= 100

\* C15 amended: the score of the candidate of the original's color family is
\* higher than the other's, by exactly 0.30 or, when it stands at the cap of
\* 1.0, by less; and no score exceeds 1.0.
C15_ColorCredit ==
    ScoredForOriginal
    => /\ ScoredAs(3) >= 0
       /\ ScoredAs(2) > ScoredAs(3)
       /\ ScoredAs(2) - ScoredAs(3) = 30 \/ ScoredAs(2) = 100
       /\ \A i \in 1..Len(attrScored.results) :
             attrScored.results[i].attribute_score <= 100

\* Both candidates scored, 0.60 against 0.30 with no finish or thickness
\* credit.
C15_Witness ==
    /\ ScoredForOriginal
    /\ attrScored.only_in_stock
    /\ ScoredAs(2) = 60
    /\ ScoredAs(3) = 30

----------------------------------------------------------------------------
(* Web search with cross-reference (src/services/web_search_service.py) *)

\* Keywords of product mentions (the generic terms and the ones the
\* exploration's texts use).
MDF_KEYWORDS == {<<"m", "d", "f">>, <<"m", "e", "l", "a", "m", "i", "n", "a">>, <<"c", "h", "a", "p", "a">>, <<"p", "a", "i", "n", "e", "l">>, <<"c", "a", "r", "v", "a", "l", "h", "o">>, <<"n", "o", "g", "a", "l">>}

\* mdf_terms of _is_relevant_result.
mdf_terms == {<<"m", "d", "f">>, <<"m", "e", "l", "a", "m", "i", "n", "a">>, <<"c", "h", "a", "p", "a">>, <<"p", "a", "i", "n", "e", "l">>, <<"m", "a", "d", "e", "i", "r", "a">>, <<"m", "a", "r", "c", "e", "n", "a", "r", "i", "a">>}

\* The single characters the separator pattern splits at.
SeparatorChars == {",", ";", ".", "(", ")", "[", "]", "|", "/", "-"}

\* The words the separator pattern splits at (between word boundaries,
\* whatever their case).
SeparatorWords == {<<"o", "u">>, <<"c", "o", "m", "o">>, <<"s", "i", "m", "i", "l", "a", "r">>, <<"a", "l", "t", "e", "r", "n", "a", "t", "i", "v", "a">>, <<"e", "q", "u", "i", "v", "a", "l", "e", "n", "t", "e">>, <<"s", "u", "b", "s", "t", "i", "t", "u", "t", "o">>, <<"v", "e", "r", "s", "a", "o">>}

\* The separator word that matches at position i of the text, <<>> for none.
SeparatorWordAt(text, i) ==
    LET hits == {w \in SeparatorWords :
                    /\ i + Len(w) - 1 <= Len(text)
                    /\ lower(SubSeq(text, i, i + Len(w) - 1)) = w
                    /\ BoundaryBefore(text, i)
                    /\ BoundaryAfter(text, i + Len(w) - 1)}
    IN  IF hits = {} THEN <<>> ELSE CHOOSE w \in hits : TRUE

\* re.split(separators, text): the fragments, from position i, the running
\* fragment having begun at position start.
RECURSIVE Fragments(_, _, _)
Fragments(text, i, start) ==
    IF i > Len(text) THEN <<SubSeq(text, start, Len(text))>>
    ELSE IF text[i] \in SeparatorChars
    THEN <<SubSeq(text, start, i - 1)>> \o Fragments(text, i + 1, i + 1)
    ELSE IF SeparatorWordAt(text, i) # <<>>
    THEN <<SubSeq(text, start, i - 1)>>
         \o Fragments(text, i + Len(SeparatorWordAt(text, i)),
                      i + Len(SeparatorWordAt(text, i)))
    ELSE Fragments(text, i + 1, start)

\* The loop of _extract_product_candidates over the fragments.
RECURSIVE CandidateLoop(_, _, _)
CandidateLoop(fragments, seen, candidates) ==
    IF fragments = <<>> THEN candidates
    ELSE LET frag == strip(Head(fragments))
             words == SplitWords(frag, <<>>)
             key == strip(lower(frag))
         IN  IF Len(words) < 2 \/ Len(words) > 8
             THEN CandidateLoop(Tail(fragments), seen, candidates)
             ELSE IF (\E kw \in MDF_KEYWORDS : Contains(lower(frag), kw)) /\ key \notin seen
             THEN CandidateLoop(Tail(fragments), seen \cup {key}, Append(candidates, frag))
             ELSE CandidateLoop(Tail(fragments), seen, candidates)

\* _extract_product_candidates
_extract_product_candidates(text) ==
    Take(CandidateLoop(Fragments(text, 1, 1), {}, <<>>), 15)

\* _is_relevant_result
_is_relevant_result(title, snippet, product_name) ==
    LET combined == lower(title \o <<" ">> \o snippet)
        product_words == SplitWords(lower(product_name), <<>>)
    IN  /\ \E term \in mdf_terms : Contains(combined, term)
        /\ \E i \in 1..Len(product_words) :
              Contains(combined, product_words[i]) /\ Len(product_words[i]) > 2

\* requests: Response.ok, which is also the truth value of a Response
\* (Response.__bool__ returns self.ok).
ResponseOk(status_code) == status_code < 400

\* The payloads of _search_brave, as [key, text] with the text in pieces
\* (the message, then what is interpolated).
BraveError(text) == [key |-> "error", text |-> text]

BraveInfo(text) == [key |-> "info", text |-> text]

NotConfiguredText == <<"Busca web nao configurada. Configure BRAVE_API_KEY no .env.">>

TimeoutText == <<"Busca web demorou demais. Tente novamente.">>

RateLimitText == <<"Limite de buscas web atingido. Tente novamente mais tarde.">>

HttpErrorText(status_code) ==
    <<"Erro na busca web: ", IF status_code < 500 THEN "Client Error" ELSE "Server Error">>

UnexpectedText(exception) == <<"Erro inesperado na busca web: ", exception>>

NoRelevantText(product_name) ==
    <<"Nenhum resultado relevante encontrado para '", product_name, "'.">>

\* The search query of lines 128-133.
BraveQuery(product_name, brand) ==
    JoinWords((IF brand # <<>> THEN <<brand>> ELSE <<>>)
              \o <<product_name, <<"M", "D", "F", " ", "s", "i", "m", "i", "l", "a", "r", " ", "a", "l", "t", "e", "r", "n", "a", "t", "i", "v", "a">>>>)

\* What happens to the GET of lines 136-150: the exception it raises or the
\* response it delivers (body "items": JSON with the items under web.results).
Reply(kind, status_code, body, items) ==
    [kind |-> kind, status_code |-> status_code, body |-> body, items |-> items]

\* The except clause of lines 176-179: e.response is the Response of the
\* failed request, whose truth value is its ok.
HttpErrorPayload(status_code) ==
    IF ResponseOk(status_code) /\ status_code = 429 THEN BraveError(RateLimitText)
    ELSE BraveError(HttpErrorText(status_code))

\* The relevant ones of the first eight items.
RelevantResults(items, product_name) ==
    SelectSeq(Take(items, 8),
              LAMBDA item : _is_relevant_result(item.title, item.snippet, product_name))

\* _search_brave
_search_brave(api_key, product_name, brand, reply) ==
    IF api_key = <<>> THEN <<BraveError(NotConfiguredText)>>
    ELSE IF reply.kind = "Timeout" THEN <<BraveError(TimeoutText)>>
    ELSE IF reply.kind = "ConnectionError"
    THEN <<BraveError(UnexpectedText("ConnectionError"))>>
    ELSE IF ~ResponseOk(reply.status_code)
    THEN <<HttpErrorPayload(reply.status_code)>>
    ELSE IF reply.body # "items" THEN <<BraveError(UnexpectedText("JSONDecodeError"))>>
    ELSE IF RelevantResults(reply.items, product_name) = <<>>
    THEN <<BraveInfo(NoRelevantText(product_name))>>
    ELSE RelevantResults(reply.items, product_name)

\* The inner loop of _cross_reference_with_stock over the products of one
\* search.
RECURSIVE MatchLoop(_, _, _, _, _)
MatchLoop(results, source, exclude_lower, required_thickness_mm, matches) ==
    IF results = <<>> THEN matches
    ELSE LET product == Head(results)
             skip ==
                \/ exclude_lower # <<>> /\ Contains(lower(product.product_name), exclude_lower)
                \/ /\ required_thickness_mm # NullQty
                   /\ \/ product.thickness_mm = NullQty
                      \/ ~WithinTolerance(product.thickness_mm, required_thickness_mm)
                \/ 2 * product.match_score < ScoreScale
                \/ \E i \in 1..Len(matches) : matches[i].id = product.id
         IN  MatchLoop(Tail(results), source, exclude_lower, required_thickness_mm,
                       IF skip THEN matches
                       ELSE Append(matches, product @@ [source_url |-> source.url,
                                                        source_title |-> source.title]))

\* The outer loop of _cross_reference_with_stock: one product_service.search
\* per candidate, st = [raised, matches, cache].
\* One pass of the outer loop of _cross_reference_with_stock (lines 229-256):
\* what the search of the candidate's name found goes through the inner loop;
\* an exception of the search leaves the function.
CrossReferenceStep(candidate, found, exclude_lower, required_thickness_mm, st) ==
    IF found.raised
    THEN [st EXCEPT !.raised = TRUE, !.cache = found.cache]
    ELSE [st EXCEPT !.cache = found.cache,
                    !.matches = MatchLoop(found.results, candidate.source,
                                          exclude_lower, required_thickness_mm, @)]

RECURSIVE CrossReferenceLoop(_, _, _, _)
CrossReferenceLoop(candidates, exclude_lower, required_thickness_mm, st) ==
    IF candidates = <<>> \/ st.raised THEN st
    ELSE CrossReferenceLoop(
            Tail(candidates), exclude_lower, required_thickness_mm,
            CrossReferenceStep(Head(candidates), search(Head(candidates).name, st.cache),
                               exclude_lower, required_thickness_mm, st))

\* The sort key of lines 258-261: (in_stock, match_score).
MatchKeyGeq(x, y) ==
    \/ x.in_stock /\ ~y.in_stock
    \/ x.in_stock = y.in_stock /\ x.match_score >= y.match_score

RECURSIVE SortMatches(_)
SortMatches(rows) ==
    IF rows = <<>> THEN <<>>
    ELSE LET i == CHOOSE i \in 1..Len(rows) :
                    /\ \A j \in 1..Len(rows) : MatchKeyGeq(rows[i], rows[j])
                    /\ \A j \in 1..(i - 1) : ~MatchKeyGeq(rows[j], rows[i])
         IN  <<rows[i]>> \o
             SortMatches(SubSeq(rows, 1, i - 1) \o SubSeq(rows, i + 1, Len(rows)))

\* _cross_reference_with_stock: [raised, matches, cache].
_cross_reference_with_stock(candidates, exclude_product_name, required_thickness_mm, cache) ==
    LET st == CrossReferenceLoop(candidates, strip(lower(exclude_product_name)),
                                 required_thickness_mm,
                                 [raised |-> FALSE, matches |-> <<>>, cache |-> cache])
    IN  [st EXCEPT !.matches = Take(SortMatches(@), 10)]

\* The candidates of lines 71-76, from result i on.
RECURSIVE WebCandidates(_, _)
WebCandidates(web_results, i) ==
    IF i > Len(web_results) THEN <<>>
    ELSE LET extracted == _extract_product_candidates(
                              web_results[i].title \o <<" ">> \o web_results[i].snippet)
         IN  [k \in 1..Len(extracted) |-> [name |-> extracted[k], source |-> web_results[i]]]
             \o WebCandidates(web_results, i + 1)

\* The summary of lines 87-107 (the counts as digits).
WebSummary(total_web, in_stock_count, total_local) ==
    IF in_stock_count > 0
    THEN <<"Encontrei ", Digits[total_web + 1], " referencias na web. Desses, ",
           Digits[in_stock_count + 1], " produto(s) similar(es) esta(ao) em nosso estoque!">>
    ELSE IF total_local > 0
    THEN <<"Encontrei ", Digits[total_web + 1], " referencias na web. ",
           Digits[total_local + 1],
           " produto(s) existe(m) em nossa base, mas nenhum com estoque disponivel.">>
    ELSE <<"Encontrei ", Digits[total_web + 1],
           " referencias na web, mas nenhum dos produtos mencionados foi encontrado em nossa base. Veja as referencias abaixo para consultar manualmente.">>

\* Lines 78-116 of search_web_and_cross_reference: what the call delivers once
\* the cross-reference has run (crossed), an exception of it leaving the call.
CrossedOutcome(web_results, crossed) ==
    IF crossed.raised
    THEN [raised |-> TRUE, brave |-> web_results, cache |-> crossed.cache,
          result |-> [local_matches |-> <<>>, web_references |-> <<>>,
                      summary |-> <<>>]]
    ELSE [raised |-> FALSE, brave |-> web_results, cache |-> crossed.cache,
          result |-> [local_matches |-> crossed.matches,
                      web_references |-> web_results,
                      summary |-> WebSummary(Len(web_results),
                                             Len(SelectSeq(crossed.matches,
                                                           LAMBDA m : m.in_stock)),
                                             Len(crossed.matches))]]

\* search_web_and_cross_reference: whether it raised, what _search_brave
\* delivered, what it returned and the fuzzy cache it leaves.
search_web_and_cross_reference(api_key, product_name, brand, reply, cache) ==
    LET web_results == _search_brave(api_key, product_name, brand, reply)
    IN  IF "key" \in DOMAIN web_results[1]
        THEN [raised |-> FALSE, brave |-> web_results, cache |-> cache,
              result |-> [local_matches |-> <<>>, web_references |-> <<>>,
                          summary |-> web_results[1].text]]
        ELSE CrossedOutcome(
                web_results,
                _cross_reference_with_stock(WebCandidates(web_results, 1), product_name,
                                            _extract_thickness_mm(product_name), cache))

\* A call of search_web_and_cross_reference by a caller, with the settings'
\* BRAVE_API_KEY and the service's reply.
SearchWebAndCrossReference(api_key, product_name, brand, reply) ==
    /\ \E r \in {search_web_and_cross_reference(api_key, product_name, brand, reply,
                                                fuzzy_cache)} :
          /\ webLast' = [called |-> TRUE, api_key |-> api_key,
                         product_name |-> product_name,
                         query |-> BraveQuery(product_name, brand),
                         reply |-> reply, raised |-> r.raised, brave |-> r.brave,
                         result |-> r.result]
          /\ fuzzy_cache' = r.cache
    /\ UNCHANGED <<storeVars, searchQuery, searchResult, rankVars, equivLast, tapeLast, availLast, lateVars>>

\* Items of a reply: a reference naming a board of the catalog, one off the
\* subject, one that names no product, one naming a board not in the catalog.
WebItem(title, description, url) == [title |-> title, snippet |-> description, url |-> url]

WebItems ==
    { WebItem(<<"m", "d", "f", " ", "o", "a", "k">>, <<>>, "u1"),
      WebItem(<<"o", "a", "k">>, <<"b", "o", "l", "o">>, "u2"),
      WebItem(<<"m", "d", "f", ".", " ", "o", "a", "k">>, <<>>, "u3"),
      WebItem(<<"c", "h", "a", "p", "a", " ", "z", "z", " ", "o", "u", " ", "o", "a", "k">>, <<"p", "a", "i", "n", "e", "l", " ", "z", "z">>, "u4") }

WebItemLists ==
    {<<>>} \cup {<<a>> : a \in WebItems}
    \cup {<<a, b>> : a \in {item \in WebItems : item.url = "u3"}, b \in WebItems}

\* The replies of the search service the exploration runs through.
Replies ==
    {Reply("Timeout", 0, "none", <<>>), Reply("ConnectionError", 0, "none", <<>>),
     Reply("Response", 429, "none", <<>>), Reply("Response", 500, "none", <<>>),
     Reply("Response", 404, "none", <<>>), Reply("Response", 200, "invalid", <<>>)}
    \cup {Reply("Response", 200, "items", items) : items \in WebItemLists}

InitWeb == InitRanker

NextWeb ==
    \/ \E product_name \in {<<"o", "a", "k">>, <<"x">>}, brand \in {<<>>, <<"D">>},
          reply \in Replies :
          SearchWebAndCrossReference(<<>>, product_name, brand, reply)
          /\ UNCHANGED <<orchVars, attrVars>>
    \/ \E product_name \in {<<"o", "a", "k">>, <<"x">>}, brand \in {<<>>, <<"D">>},
          reply \in Replies :
          SearchWebAndCrossReference(<<"k">>, product_name, brand, reply)
          /\ UNCHANGED <<orchVars, attrVars>>

SpecWeb == InitWeb /\ [][NextWeb]_vars

\* The first piece of the message of a generic failure (lines 179 and 181).
GenericFailureMessages == {HttpErrorText(500)[1], UnexpectedText("")[1]}

\* The condition the last web search met.
WebCondition ==
    IF webLast.api_key = <<>> THEN "no_credentials"
    ELSE IF webLast.reply.kind = "Timeout" THEN "timeout"
    ELSE IF webLast.reply.kind = "Response" /\ webLast.reply.status_code = 429
    THEN "rate_limit"
    ELSE IF webLast.reply.kind = "ConnectionError"
            \/ ~ResponseOk(webLast.reply.status_code)
            \/ webLast.reply.body # "items"
    THEN "generic_failure"
    ELSE IF RelevantResults(webLast.reply.items, webLast.product_name) = <<>>
    THEN "no_relevant_result"
    ELSE "results"

\* C16: the web search never raises to its caller; missing credentials, a
\* timeout and a rate-limit response (HTTP 429) each give a payload distinct
\* from one another and from the payload of a generic failure; and a search
\* with no relevant result gives an info payload, not an error payload.
C16_DistinctFailures ==
    webLast.called
    => /\ ~webLast.raised
       /\ WebCondition = "no_credentials"
          => /\ webLast.result.summary[1] \notin GenericFailureMessages
             /\ webLast.result.summary \notin {TimeoutText, RateLimitText}
       /\ WebCondition = "timeout"
          => /\ webLast.result.summary[1] \notin GenericFailureMessages
             /\ webLast.result.summary \notin {NotConfiguredText, RateLimitText}
       /\ WebCondition = "rate_limit"
          => /\ webLast.result.summary[1] \notin GenericFailureMessages
             /\ webLast.result.summary \notin {NotConfiguredText, TimeoutText}
       /\ WebCondition = "generic_failure"
          => /\ webLast.brave[1].key = "error"
             /\ webLast.result.summary[1] \in GenericFailureMessages
       /\ WebCondition = "no_relevant_result"
          => webLast.brave[1].key = "info"

----------------------------------------------------------------------------
(* Tape quantities in rolls (edging_tape_service._decorate_tapes and       *)
(* response_formatter._format_rolls).  Quantities, in meters or in rolls,  *)
(* are counted in ten-thousandths; the exploration's meters are multiples  *)
(* of 0.002 m, for which the division by the roll length is exact.         *)

QtyScale == 10000

\* settings.TAPE_METERS_PER_ROLL (default of the environment variable).
TAPE_METERS_PER_ROLL == 20

\* Largest number of times the exploration decorates the same tapes.
MaxDecorations == 3

\* SQL NULL / Python None as a quantity.
None == Absent

\* float(x) of a quantity that is not None; a text that is no number raises.
FloatOf(x) == IF x.t = "num" THEN x.v ELSE 0

\* The body of the loop of _decorate_tapes taking the meters from
\* quantity_available every time, without looking at quantity_available_meters.
_decorate_tapeFromQuantity(tape) ==
    LET qty_meters == FloatOf(tape.quantity_available)
        qty_rolls == IF TAPE_METERS_PER_ROLL > 0 THEN qty_meters \div TAPE_METERS_PER_ROLL
                     ELSE qty_meters
    IN  [quantity_available_meters |-> JNum(qty_meters),
         quantity_available |-> JNum(qty_rolls),
         unit |-> "rolos",
         in_stock |-> qty_meters > 0] @@ tape

\* The body of the loop of _decorate_tapes for one tape.
_decorate_tape(tape) ==
    LET got == IF "quantity_available_meters" \in DOMAIN tape
               THEN tape.quantity_available_meters ELSE None
        raw == IF got.t = "absent" THEN tape.quantity_available ELSE got
        qty_meters == FloatOf(raw)
        qty_rolls == IF TAPE_METERS_PER_ROLL > 0 THEN qty_meters \div TAPE_METERS_PER_ROLL
                     ELSE qty_meters
    IN  [quantity_available_meters |-> JNum(qty_meters),
         quantity_available |-> JNum(qty_rolls),
         unit |-> "rolos",
         in_stock |-> qty_meters > 0] @@ tape

\* _decorate_tapes
_decorate_tapes(tapes) == [i \in 1..Len(tapes) |-> _decorate_tape(tapes[i])]

\* str(n) of a natural number, of an integer.
RECURSIVE NatString(_)
NatString(n) ==
    IF n < 10 THEN <<Digits[n + 1]>>
    ELSE Append(NatString(n \div 10), Digits[(n % 10) + 1])

IntString(n) == IF n < 0 THEN <<"-">> \o NatString(0 - n) ELSE NatString(n)

\* str.rstrip(c)
RECURSIVE RStrip(_, _)
RStrip(text, c) ==
    IF text # <<>> /\ text[Len(text)] = c THEN RStrip(SubSeq(text, 1, Len(text) - 1), c)
    ELSE text

\* f"{v:.2f}" for a number of hundredths h and the sign of v.
Fixed2(negative, h) ==
    (IF negative THEN <<"-">> ELSE <<>>)
    \o NatString(h \div 100) \o <<".", Digits[((h \div 10) % 10) + 1], Digits[(h % 10) + 1]>>

\* The hundredths f"{v:.2f}" may round |v| to: the nearer one, and either
\* neighbour for a value halfway (the binary value of v lies on one side).
RoundedHundredths(a) ==
    LET q == a \div 100
        r == a % 100
    IN  IF 2 * r < 100 THEN {q} ELSE IF 2 * r > 100 THEN {q + 1} ELSE {q, q + 1}

\* _format_rolls: the texts it may return for the value.
_format_rolls(value) ==
    IF value.t # "num" THEN {<<"0">>}
    ELSE IF value.v % QtyScale = 0 THEN {IntString(value.v \div QtyScale)}
    ELSE {RStrip(RStrip(Fixed2(value.v < 0, h), "0"), ".") :
             h \in RoundedHundredths(Abs(value.v))}

\* float(text) of a decimal text, in ten-thousandths.
ParseDecimal(text) ==
    LET negative == text # <<>> /\ text[1] = "-"
        body == IF negative THEN Tail(text) ELSE text
        dots == {i \in 1..Len(body) : body[i] = "."}
        dot == IF dots = {} THEN Len(body) + 1 ELSE CHOOSE i \in dots : TRUE
        whole == DigitsValue(SubSeq(body, 1, dot - 1))
        fraction == SubSeq(body, dot + 1, Len(body))
        padded == SubSeq(fraction \o <<"0", "0", "0", "0">>, 1, 4)
        magnitude == whole * QtyScale + DigitsValue(padded)
    IN  IF negative THEN 0 - magnitude ELSE magnitude

\* A row of edging_tapes.
TapeRow(id, quantity_available) == [id |-> id, quantity_available |-> quantity_available]

\* Stored quantities, in meters: none, NULL, a hundredth of a meter, values
\* whose rolls fall halfway between hundredths, whole and fractional rolls,
\* and a negative balance.
TapeQuantities ==
    {None} \cup
    {JNum(m) : m \in {0, 100, 1000, 3000, 10000, 100000, 200000, 250000,
                      2400000, 2467000, 0 - 100000}}

TapeLists ==
    {<<TapeRow(1, q)>> : q \in TapeQuantities}
    \cup {<<TapeRow(1, q1), TapeRow(2, q2)>> : q1 \in TapeQuantities, q2 \in TapeQuantities}

\* The texts of _format_rolls for each tape of a list.
Presentations(tapes) ==
    {pres \in [1..Len(tapes) -> UNION {_format_rolls(tapes[i].quantity_available) :
                                         i \in 1..Len(tapes)}] :
        \A i \in 1..Len(tapes) : pres[i] \in _format_rolls(tapes[i].quantity_available)}

\* _decorate_tapes on rows read from edging_tapes, and the stock text of each.
DecorateTapes(rows) ==
    /\ \E tapes \in {_decorate_tapes(rows)} :
          \E presented \in Presentations(tapes) :
             tapeLast' = [called |-> TRUE, rows |-> rows, first |-> tapes,
                          tapes |-> tapes, times |-> 1, presented |-> presented]
    /\ UNCHANGED <<storeVars, searchVars, rankVars, equivLast, webLast, availLast, lateVars>>

\* _decorate_tapes on tapes that were decorated before.
DecorateAgain ==
    /\ tapeLast.called
    /\ tapeLast.times < MaxDecorations
    /\ \E tapes \in {_decorate_tapes(tapeLast.tapes)} :
          \E presented \in Presentations(tapes) :
             tapeLast' = [tapeLast EXCEPT !.tapes = tapes, !.times = @ + 1,
                                          !.presented = presented]
    /\ UNCHANGED <<storeVars, searchVars, rankVars, equivLast, webLast, availLast, lateVars>>

InitTape == InitStoreOnly

NextTape ==
    \/ \E rows \in TapeLists : DecorateTapes(rows) /\ UNCHANGED <<orchVars, attrVars>>
    \/ DecorateAgain /\ UNCHANGED <<orchVars, attrVars>>

SpecTape == InitTape /\ [][NextTape]_vars

\* The stored linear quantity of a row, NULL counting as nothing.
StoredMeters(row) == FloatOf(row.quantity_available)

\* C20: for every tape, the roll quantity is the stored linear quantity
\* divided by the length per roll, the tape is flagged in stock exactly when
\* the linear quantity is positive, the presented rolls times the length per
\* roll give back the stored linear quantity within the rounding of the
\* presentation (half a hundredth of a roll), and decorating a decorated tape
\* again leaves its roll quantity as it was.
C20_RollsRoundTrip ==
    tapeLast.called
    => \A i \in 1..Len(tapeLast.rows) :
          /\ tapeLast.tapes[i].quantity_available.v * TAPE_METERS_PER_ROLL
                = StoredMeters(tapeLast.rows[i])
          /\ tapeLast.tapes[i].in_stock <=> StoredMeters(tapeLast.rows[i]) > 0
          /\ 2 * Abs(ParseDecimal(tapeLast.presented[i]) * TAPE_METERS_PER_ROLL
                     - StoredMeters(tapeLast.rows[i]))
                <= TAPE_METERS_PER_ROLL * (QtyScale \div 100)
          /\ tapeLast.tapes[i].quantity_available = tapeLast.first[i].quantity_available

\* Tapes decorated twice: 240 m stored and presented as 12 rolls, 25 m stored
\* and presented as 1.25 rolls.
C20_Witness ==
    /\ tapeLast.called
    /\ tapeLast.times = 2
    /\ Len(tapeLast.rows) = 2
    /\ StoredMeters(tapeLast.rows[1]) = 240 * QtyScale
    /\ tapeLast.presented[1] = <<"1", "2">>
    /\ tapeLast.tapes[1].in_stock
    /\ StoredMeters(tapeLast.rows[2]) = 25 * QtyScale
    /\ tapeLast.presented[2] = <<"1", ".", "2", "5">>

----------------------------------------------------------------------------
(* The in_stock flag across the resolvers (search, stock check, direct     *)
(* equivalents, ranker)                                                    *)

\* The parameters queries.get_product_with_stock declares.
get_product_with_stock_params == {"product_id"}

\* queries.get_product_with_stock: fetchone over the product joined with its
\* stock rows.
get_product_with_stock(product_id) ==
    LET product == get_product_by_id(product_id)
    IN  IF product = NoRow THEN NoRow ELSE JoinStock(product)[1]

\* stock_service.check_availability up to line 33.  It calls
\* get_product_with_stock(product_id, location=PRIMARY_LOCATION); Python
\* raises TypeError for a keyword the function does not declare.
check_availability(product_id, include_other_locations) ==
    IF ~({"product_id", "location"} \subseteq get_product_with_stock_params)
    THEN TypeError
    ELSE LET row == get_product_with_stock(product_id)
             qty_available == OrZero(row.quantity_available)
             qty_reserved == OrZero(row.quantity_reserved)
         IN  IF row = NoRow THEN [found |-> FALSE]
             ELSE [found |-> TRUE, product_id |-> row.id,
                   quantity_available |-> qty_available,
                   quantity_reserved |-> qty_reserved,
                   net_available |-> qty_available - qty_reserved,
                   in_stock |-> qty_available - qty_reserved >= DEFAULT_MIN_STOCK]

\* A call of check_availability by a caller.
CheckAvailability(product_id, include_other_locations) ==
    /\ \E r \in {check_availability(product_id, include_other_locations)} :
          availLast' = [called |-> TRUE, product_id |-> product_id,
                        raised |-> r = TypeError,
                        result |-> IF r = TypeError THEN [found |-> FALSE] ELSE r]
    /\ UNCHANGED <<storeVars, searchVars, rankVars, equivLast, webLast, tapeLast, lateVars>>

\* Queries of the exploration: a product code, a name, a text no product has.
FlagQueries == {<<"P", "2">>, <<"o", "a", "k">>, <<"z", "z">>}

FlagQuantities == { <<12, 0>>, <<12, 12>>, <<0, 0>> }

InitFlags == InitEquiv

NextFlags ==
    \/ \E code \in {<<"P", "2">>, <<"P", "3">>}, q \in FlagQuantities :
          ImportStockRow(code, PRIMARY_LOCATION, q[1], q[2])
          /\ UNCHANGED <<orchVars, searchVars, attrVars, restVars>>
    \/ \E code_b \in {<<"P", "2">>, <<"P", "3">>} :
          ImportEquivalenceRowConfidence(<<"P", "1">>, code_b, "manual", 100)
          /\ UNCHANGED <<orchVars, searchVars, attrVars, restVars>>
    \/ \E only_in_stock \in BOOLEAN :
          FindDirectEquivalents(1, FALSE, only_in_stock)
          /\ UNCHANGED <<orchVars, searchVars, attrVars>>
    \/ \E query \in FlagQueries :
          Search(query) /\ UNCHANGED <<orchVars, storeVars, attrVars, restVars>>
    \/ \E product_id \in 2..4, include_other_locations \in BOOLEAN :
          CheckAvailability(product_id, include_other_locations)
          /\ UNCHANGED <<orchVars, attrVars>>

SpecFlags == InitFlags /\ [][NextFlags]_vars

\* The flag the specification asks for: available minus reserved is at
\* least the configured minimum (NULL counting as 0).
ExpectedInStock(product) ==
    OrZero(product.quantity_available) - OrZero(product.quantity_reserved)
       >= DEFAULT_MIN_STOCK

\* C17: every resolver that reports an in_stock flag for a product (product
\* search, stock check, direct-equivalence lookup, attribute ranker) reports
\* it, and reports it true exactly when available minus reserved is at least
\* the configured minimum stock.
C17_InStockConsistent ==
    /\ searchResult.called
       => /\ ~searchResult.raised
          /\ \A i \in 1..Len(searchResult.results) :
                searchResult.results[i].in_stock
                   = ExpectedInStock(searchResult.results[i])
    /\ (availLast.called /\ get_product_by_id(availLast.product_id) # NoRow)
       => /\ ~availLast.raised
          /\ availLast.result.found
          /\ availLast.result.in_stock = ExpectedInStock(availLast.result)
    /\ equivLast.called
       => \A i \in 1..Len(equivLast.results) :
             equivLast.results[i].in_stock = ExpectedInStock(equivLast.results[i])
    /\ (smartLast.called /\ smartLast.from_cache)
       => \A i \in 1..Len(smartLast.results) :
             smartLast.results[i].in_stock = ExpectedInStock(smartLast.results[i])

----------------------------------------------------------------------------
(* Claim about the fuzzy cache, checked under SpecSearch *)

\* The call of search reaches strategy 3 (lines 54-56): the query is not
\* empty, no product has it as its code, and fewer than three name matches
\* came back, none of them an exact name match.
ReachesFuzzy(query_arg) ==
    LET query == strip(query_arg)
        required_thickness == _extract_thickness_mm(query)
        query_for_match == _normalize_query_for_search(query)
        sql_limit == IF required_thickness # NullQty THEN 100 ELSE 20
        sql_results == search_products_by_name(query_for_match, sql_limit)
    IN  /\ query # <<>>
        /\ get_product_by_code(upper(query)) = NoRow
        /\ ~Raises(EnrichEach([i \in 1..Len(sql_results) |->
                                  Scored(sql_results[i], 0, "name_match")]))
        /\ Len(sql_results) < 3
        /\ \A i \in 1..Len(sql_results) :
              normalize_text(sql_results[i].product_name) # normalize_text(query_for_match)

\* The items a cache built now would hold.
FreshItems == _get_fuzzy_cache(NoCache).items

\* C18: a search that reaches the fuzzy strategy scores the active products
\* as they are at the time of the search, whatever imports were made since
\* the cache was built.
C18_CacheFreshAfterImport ==
    [][(/\ products' = products
        /\ searchQuery' # searchQuery \/ searchResult' # searchResult
              \/ fuzzy_cache' # fuzzy_cache
        /\ ReachesFuzzy(searchQuery'))
       => fuzzy_cache'.items = FreshItems]_vars

----------------------------------------------------------------------------
(* Claims about the thickness filter and the fuzzy strategy of search,
   checked under SpecSearch *)

\* The name matches of strategy 2 for the query (lines 38-39).
NameMatches(query_arg) ==
    LET query == strip(query_arg)
    IN  search_products_by_name(
            _normalize_query_for_search(query),
            IF _extract_thickness_mm(query) # NullQty THEN 100 ELSE 20)

\* The condition of line 54 on the name matches of the query.
FuzzyCondition(query_arg) ==
    LET query_for_match == _normalize_query_for_search(strip(query_arg))
        sql_results == NameMatches(query_arg)
    IN  /\ Len(sql_results) < 3
        /\ \A i \in 1..Len(sql_results) :
              normalize_text(sql_results[i].product_name) # normalize_text(query_for_match)

\* The rows strategy 3 adds for the query from the cache's items (lines
\* 59-65): not a name match, and scoring at least the threshold.
FuzzyMatches(query_arg, items) ==
    LET normalized_query == normalize_text(_normalize_query_for_search(strip(query_arg)))
        sql_results == NameMatches(query_arg)
        seen_ids == {sql_results[i].id : i \in 1..Len(sql_results)}
    IN  {items[i].row : i \in
            {i \in 1..Len(items) :
                /\ items[i].id \notin seen_ids
                /\ _fuzzy_score_cached(normalized_query, items[i]) >= FUZZY_MATCH_THRESHOLD}}

\* The products strategies 2 and 3 find for the query.
FoundBySearch(query_arg) ==
    {NameMatches(query_arg)[i] : i \in 1..Len(NameMatches(query_arg))}
    \cup (IF FuzzyCondition(query_arg)
          THEN FuzzyMatches(query_arg, _get_fuzzy_cache(fuzzy_cache).items)
          ELSE {})

\* The last call of search named a thickness, matched no product code and
\* found products by name or by similarity.
ThicknessSearch ==
    /\ searchResult.called
    /\ strip(searchQuery) # <<>>
    /\ _extract_thickness_mm(strip(searchQuery)) # NullQty
    /\ get_product_by_code(upper(strip(searchQuery))) = NoRow
    /\ FoundBySearch(searchQuery) # {}

\* C21: when the query names a thickness, search returns exactly the found
\* products whose thickness is known and within 0.1 mm of it, if there is
\* one; if there is none it returns every found product, each flagged as not
\* matching the requested thickness.
C21_ThicknessFilter ==
    LET required == _extract_thickness_mm(strip(searchQuery))
        found == FoundBySearch(searchQuery)
        within == {p \in found : /\ p.thickness_mm # NullQty
                                  /\ WithinTolerance(p.thickness_mm, required)}
        results == searchResult.results
        returned == {results[i].id : i \in 1..Len(results)}
    IN  ThicknessSearch
        => /\ ~searchResult.raised
           /\ IF within # {}
              THEN /\ returned = {p.id : p \in within}
                   /\ \A i \in 1..Len(results) : results[i].thickness_match
              ELSE /\ returned = {p.id : p \in found}
                   /\ \A i \in 1..Len(results) : ~results[i].thickness_match

----------------------------------------------------------------------------
(* Stock writes: import_stock and preload_stock, one after another *)

\* preload_stock (lines 276-306): the store's own sheet for the primary
\* location, then the Central de Trocas sheet, whose rows of the primary
\* location are skipped.
preload_stock(st, primary, central) ==
    PreloadStockRows(PreloadStockRows(st, primary),
                     SelectSeq(central, LAMBDA row : RowLocation(row) # PRIMARY_LOCATION))

\* preload_stock at the start of the application (app.py line 37): nothing
\* is done once the log holds a PRELOAD_STOCK entry.
PreloadStock(primary, central) ==
    /\ ~stockPreloaded
    /\ \E st \in {preload_stock([products |-> products, next |-> nextProductId,
                                  stock |-> stock, writes |-> stockWrites],
                                 primary, central)} :
          /\ st.next <= MaxProductId + 1
          /\ products' = st.products
          /\ nextProductId' = st.next
          /\ stock' = st.stock
          /\ stockWrites' = st.writes
    /\ stockPreloaded' = TRUE
    /\ UNCHANGED <<direct_equivalences, preloaded, lastInsert, tapeStore, tapeFind, sess>>

\* The button "Recarregar Estoque" (sidebar.py lines 79-86): the log entry
\* and every stock row are deleted, then preload_stock runs.
ReloadStockFiles(primary, central) ==
    /\ \E st \in {preload_stock([products |-> products, next |-> nextProductId,
                                  stock |-> <<>>, writes |-> {}],
                                 primary, central)} :
          /\ st.next <= MaxProductId + 1
          /\ products' = st.products
          /\ nextProductId' = st.next
          /\ stock' = st.stock
          /\ stockWrites' = st.writes
    /\ stockPreloaded' = TRUE
    /\ UNCHANGED <<direct_equivalences, preloaded, lastInsert, tapeStore, tapeFind, sess>>

\* One row of an import_stock spreadsheet that names its product by code.
ImportStock(product_code, location, quantity_available) ==
    /\ ImportStockRow(product_code, location, quantity_available, 0)
    /\ \E product \in {get_product_by_code(strip(product_code))} :
          stockWrites' = IF product = NoRow THEN stockWrites
                         ELSE Written(stockWrites, product.id, location, quantity_available)
    /\ UNCHANGED <<stockPreloaded, tapeStore, tapeFind, sess>>

\* The sheets of the exploration: rows for the boards of the catalog and for
\* one board the catalog lacks; the Central de Trocas sheet names the store
\* of each row.
PrimarySheets ==
    { <<>>,
      <<StockSheetRow(<<"Z">>, <<>>, 7)>>,
      <<StockSheetRow(<<"O", "A", "K">>, <<>>, 5), StockSheetRow(<<"O", "A", "K">>, <<>>, 0)>> }

CentralSheets ==
    { <<>>,
      <<StockSheetRow(<<"X">>, <<>>, 7) @@ [location |-> "filial"],
        StockSheetRow(<<"X">>, <<>>, 0) @@ [location |-> "filial"]>>,
      <<StockSheetRow(<<"O", "A", "K">>, <<>>, 7) @@ [location |-> PRIMARY_LOCATION],
        StockSheetRow(<<"O", "A", "K">>, <<>>, 7) @@ [location |-> "filial"]>> }

StockCodes == {<<"P", "1">>, <<" ", "P", "2">>, <<"P", "9">>}

InitStock ==
    /\ InitRanker
    /\ products = {RankProduct(1, <<"o", "a", "k">>, "madeirado", <<"M", "a", "t", "t">>, 15),
                   RankProduct(2, <<"x">>, "outro", <<"s", "o", "f", "t">>, 18)}

StockFrame == UNCHANGED <<orchVars, searchVars, attrVars, rankVars, equivLast, webLast,
                          tapeLast, availLast>>

NextStock ==
    \/ \E code \in StockCodes, location \in {PRIMARY_LOCATION, "filial"},
          quantity \in {0, 5} :
          ImportStock(code, location, quantity) /\ StockFrame
    \/ \E primary \in PrimarySheets, central \in CentralSheets :
          PreloadStock(primary, central) /\ StockFrame
    \/ \E primary \in PrimarySheets, central \in CentralSheets :
          ReloadStockFiles(primary, central) /\ StockFrame

SpecStock == InitStock /\ [][NextStock]_vars

\* C22: after any sequence of stock imports and stock preloads the store
\* holds at most one stock entry for each (product, location), and the entry
\* carries the quantity last written for the pair.
C22_StockUpsert ==
    /\ \A i, j \in 1..Len(stock) :
          (stock[i].product_id = stock[j].product_id /\ stock[i].location = stock[j].location)
          => i = j
    /\ \A i \in 1..Len(stock) :
          \E w \in stockWrites :
             /\ w.product_id = stock[i].product_id
             /\ w.location = stock[i].location
             /\ w.quantity = stock[i].quantity_available

\* A pair written more than once holds its one entry, beside the entry of
\* the same product at another location.
C22_Witness ==
    \E i, j \in 1..Len(stock) :
       /\ stock[i].product_id = stock[j].product_id
       /\ stock[i].location # stock[j].location
       /\ \E w \in stockWrites :
             /\ w.product_id = stock[i].product_id
             /\ w.location = stock[i].location
             /\ w.count = 2
             /\ w.quantity = stock[i].quantity_available

----------------------------------------------------------------------------
(* Edging tapes of a board (src/services/edging_tape_service.py) *)

\* A call raised AttributeError.
AttributeError == [raised |-> "AttributeError"]

\* The functions module src.database.queries defines for the tape lookups.
queries_functions ==
    {"get_compatible_tapes", "get_tape_equivalents", "get_tapes_by_color_family",
     "count_tapes", "get_product_by_id"}

\* The rank of the ORDER BY of get_compatible_tapes: the CASE gives NULL for
\* any other type, and NULL sorts first.
CompatibilityRank(compatibility_type) ==
    IF compatibility_type = "official" THEN 1
    ELSE IF compatibility_type = "recommended" THEN 2
    ELSE IF compatibility_type = "alternative" THEN 3
    ELSE 0

\* queries.get_compatible_tapes: the active tapes recorded for the product,
\* each with the type of its record, in the orders the ORDER BY allows.
get_compatible_tapes(product_id) ==
    LET joined == {tape @@ [compatibility_type |-> tpc.compatibility_type] :
                      tape \in {et \in tapeStore.tapes : et.is_active},
                      tpc \in {r \in tapeStore.compatibility : r.product_id = product_id}}
        rows == {row \in joined :
                    \E tpc \in tapeStore.compatibility :
                       /\ tpc.product_id = product_id
                       /\ tpc.tape_id = row.id
                       /\ tpc.compatibility_type = row.compatibility_type}
    IN  {s \in FetchOrders(rows) :
            \A i \in 1..Len(s), j \in 1..Len(s) :
               i < j => CompatibilityRank(s[i].compatibility_type)
                           <= CompatibilityRank(s[j].compatibility_type)}

\* queries.get_tape_equivalents: the active tapes on the other side of an
\* equivalence of the tape, in the orders the query may deliver them.
get_tape_equivalents(tape_id) ==
    FetchOrders({et \in tapeStore.tapes :
                    /\ et.is_active
                    /\ \E te \in tapeStore.equivalences :
                          /\ te.tape_id_a = tape_id \/ te.tape_id_b = tape_id
                          /\ et.id = IF te.tape_id_a = tape_id THEN te.tape_id_b
                                     ELSE te.tape_id_a})

\* find_compatible, rows being what get_compatible_tapes delivered: the
\* recorded tapes if there are any, nothing for a product that does not
\* resolve; otherwise line 25 calls queries.search_tapes_by_name, which the
\* module does not define, and the AttributeError leaves the function.
find_compatible(product_id, rows) ==
    IF rows # <<>> THEN [raised |-> FALSE, tapes |-> _decorate_tapes(rows)]
    ELSE IF get_product_by_id(product_id) = NoRow THEN [raised |-> FALSE, tapes |-> <<>>]
    ELSE IF "search_tapes_by_name" \notin queries_functions
    THEN [raised |-> TRUE, tapes |-> <<>>]
    ELSE [raised |-> FALSE, tapes |-> <<>>]

\* The loop of lines 78-81: the equivalents of the first tape that has any,
\* <<>> when none has; equivalents[id] is what get_tape_equivalents(id)
\* delivers.
RECURSIVE FirstEquivalents(_, _)
FirstEquivalents(orig_tapes, equivalents) ==
    IF orig_tapes = <<>> THEN <<>>
    ELSE IF equivalents[Head(orig_tapes).id] # <<>>
    THEN equivalents[Head(orig_tapes).id]
    ELSE FirstEquivalents(Tail(orig_tapes), equivalents)

\* find_tape_for_substitute, given what the queries deliver.
find_tape_for_substitute(original, substitute, sub_rows, orig_rows, equivalents) ==
    LET sub_tapes == find_compatible(substitute, sub_rows)
        orig_tapes == find_compatible(original, orig_rows)
        found == FirstEquivalents(orig_tapes.tapes, equivalents)
    IN  IF sub_tapes.raised \/ sub_tapes.tapes # <<>> THEN sub_tapes
        ELSE IF orig_tapes.raised THEN orig_tapes
        ELSE IF found # <<>> THEN [raised |-> FALSE, tapes |-> _decorate_tapes(found)]
        ELSE orig_tapes

TapeFrame == UNCHANGED <<storeVars, searchVars, rankVars, equivLast, webLast, tapeLast,
                         availLast, stockWrites, stockPreloaded, tapeStore, sess>>

\* A call of find_compatible by a caller.
FindCompatible(product_id) ==
    /\ \E rows \in get_compatible_tapes(product_id) :
          \E r \in {find_compatible(product_id, rows)} :
             tapeFind' = [called |-> TRUE, op |-> "find_compatible", store |-> tapeStore,
                          original |-> product_id, substitute |-> product_id,
                          raised |-> r.raised, tapes |-> r.tapes]
    /\ TapeFrame

\* What get_tape_equivalents may deliver for each tape.
EquivalentsChoices ==
    LET ids == {et.id : et \in tapeStore.tapes}
    IN  {f \in [ids -> UNION {get_tape_equivalents(id) : id \in ids}] :
            \A id \in ids : f[id] \in get_tape_equivalents(id)}

\* A call of find_tape_for_substitute by a caller.
FindTapeForSubstitute(original_product_id, substitute_product_id) ==
    /\ \E sub_rows \in get_compatible_tapes(substitute_product_id),
          orig_rows \in get_compatible_tapes(original_product_id),
          equivalents \in EquivalentsChoices :
          \E r \in {find_tape_for_substitute(original_product_id, substitute_product_id,
                                              sub_rows, orig_rows, equivalents)} :
             tapeFind' = [called |-> TRUE, op |-> "find_tape_for_substitute",
                          store |-> tapeStore,
                          original |-> original_product_id,
                          substitute |-> substitute_product_id,
                          raised |-> r.raised, tapes |-> r.tapes]
    /\ TapeFrame

\* The tapes of the exploration: two active ones, in stock and out of stock,
\* an inactive one and an active one no record names.
Tape(id, tape_name, quantity_available, is_active) ==
    [id |-> id, brand |-> <<"D">>, tape_name |-> tape_name,
     quantity_available |-> JNum(quantity_available), is_active |-> is_active]

ExploredTapes ==
    { Tape(1, <<"o", "a", "k">>, 400000, TRUE), Tape(2, <<"x">>, 0, TRUE),
      Tape(3, <<"y">>, 200000, FALSE), Tape(4, <<"z">>, 200000, TRUE) }

Compatibility(tape_id, product_id, compatibility_type) ==
    [tape_id |-> tape_id, product_id |-> product_id, compatibility_type |-> compatibility_type]

ExploredCompatibility ==
    { Compatibility(1, 1, "alternative"), Compatibility(2, 1, "official"),
      Compatibility(3, 1, "recommended"), Compatibility(2, 2, "recommended"),
      Compatibility(3, 2, "official") }

ExploredEquivalences ==
    { [tape_id_a |-> 1, tape_id_b |-> 4], [tape_id_a |-> 3, tape_id_b |-> 2] }

InitTapes ==
    /\ InitRanker
    /\ products = {RankProduct(1, <<"o", "a", "k">>, "madeirado", <<"M", "a", "t", "t">>, 15),
                   RankProduct(2, <<"x">>, "outro", <<"s", "o", "f", "t">>, 18)}

\* The tables tape_product_compatibility and tape_equivalences are filled
\* outside the application; edging_tapes holds the explored tapes.
LoadTapeTables(compatibility, equivalences) ==
    /\ tapeStore.tapes = {}
    /\ tapeStore' = [tapes |-> ExploredTapes, compatibility |-> compatibility,
                     equivalences |-> equivalences]
    /\ UNCHANGED <<storeVars, searchVars, rankVars, equivLast, webLast, tapeLast, availLast,
                   stockWrites, stockPreloaded, tapeFind, sess>>

NextTapes ==
    \/ \E compatibility \in SUBSET ExploredCompatibility,
          equivalences \in SUBSET ExploredEquivalences :
          LoadTapeTables(compatibility, equivalences) /\ UNCHANGED <<orchVars, attrVars>>
    \/ \E product_id \in 1..3 :
          FindCompatible(product_id) /\ UNCHANGED <<orchVars, attrVars>>
    \/ \E original \in 1..3, substitute \in 1..3 :
          FindTapeForSubstitute(original, substitute) /\ UNCHANGED <<orchVars, attrVars>>

SpecTapes == InitTapes /\ [][NextTapes]_vars

\* The compatibility records the tables held for the product at the last
\* tape lookup, and the active tapes they name.
RecordsOf(product_id) ==
    {r \in tapeFind.store.compatibility :
        /\ r.product_id = product_id
        /\ r.compatibility_type \in {"official", "recommended", "alternative"}}

RecordedTapes(product_id) ==
    {et.id : et \in {et \in tapeFind.store.tapes :
                        et.is_active /\ \E r \in RecordsOf(product_id) : r.tape_id = et.id}}

\* The active tapes an equivalence joins to the tape.
EquivalentTapes(tape_id) ==
    {et.id : et \in {et \in tapeFind.store.tapes :
                        /\ et.is_active
                        /\ \E te \in tapeFind.store.equivalences :
                              \/ te.tape_id_a = tape_id /\ te.tape_id_b = et.id
                              \/ te.tape_id_b = tape_id /\ te.tape_id_a = et.id}}

\* The ids of the tapes the last lookup returned.
ReturnedTapes == {tapeFind.tapes[i].id : i \in 1..Len(tapeFind.tapes)}

\* C24: find_compatible returns exactly the recorded active tapes of a
\* product that has an official, recommended or alternative record, official
\* before recommended before alternative; only for a product without a record
\* does it match by name, and then every tape it returns scores at least the
\* floor of 0.5 and in-stock tapes precede out-of-stock ones.
C24_FindCompatible ==
    (tapeFind.called /\ tapeFind.op = "find_compatible")
    => /\ ~tapeFind.raised
       /\ RecordsOf(tapeFind.original) # {}
          => /\ ReturnedTapes = RecordedTapes(tapeFind.original)
             /\ Len(tapeFind.tapes) = Cardinality(RecordedTapes(tapeFind.original))
             /\ \A i \in 1..Len(tapeFind.tapes), j \in 1..Len(tapeFind.tapes) :
                   i < j => CompatibilityRank(tapeFind.tapes[i].compatibility_type)
                               <= CompatibilityRank(tapeFind.tapes[j].compatibility_type)
       /\ RecordsOf(tapeFind.original) = {}
          => /\ \A i \in 1..Len(tapeFind.tapes) :
                   /\ tapeFind.tapes[i].compatibility_type = "name_match"
                   /\ 2 * tapeFind.tapes[i].match_score >= ScoreScale
             /\ \A i \in 1..Len(tapeFind.tapes), j \in 1..Len(tapeFind.tapes) :
                   (i < j /\ tapeFind.tapes[j].in_stock) => tapeFind.tapes[i].in_stock

\* C23: find_tape_for_substitute returns the substitute's compatible tapes
\* if it has any; otherwise, if the original has tapes and one of them has a
\* recorded equivalence, the tapes equivalent to one of the original's;
\* otherwise the original's tapes.
C23_SubstituteTapeOrder ==
    (tapeFind.called /\ tapeFind.op = "find_tape_for_substitute")
    => /\ ~tapeFind.raised
       /\ IF RecordedTapes(tapeFind.substitute) # {}
          THEN ReturnedTapes = RecordedTapes(tapeFind.substitute)
          ELSE IF \E id \in RecordedTapes(tapeFind.original) : EquivalentTapes(id) # {}
          THEN \E id \in RecordedTapes(tapeFind.original) :
                  EquivalentTapes(id) # {} /\ ReturnedTapes = EquivalentTapes(id)
          ELSE ReturnedTapes = RecordedTapes(tapeFind.original)

----------------------------------------------------------------------------
(* Claim about when the fuzzy strategy of search runs, checked under
   SpecSearch *)

\* The ids of the name matches of the query.
NameMatchIds(query_arg) ==
    {NameMatches(query_arg)[i].id : i \in 1..Len(NameMatches(query_arg))}

\* What the last search returned obeys the bounds of the fuzzy strategy: no
\* id twice, no more than the cap, and every product the fuzzy strategy
\* added is none of the name matches and scores at least the threshold.
FuzzyBounds(results, query_arg) ==
    /\ \A i \in 1..Len(results), j \in 1..Len(results) :
          results[i].id = results[j].id => i = j
    /\ Len(results) <= MAX_SEARCH_RESULTS
    /\ \A i \in 1..Len(results) :
          results[i].match_type = "fuzzy"
          => /\ results[i].id \notin NameMatchIds(query_arg)
             /\ results[i].match_score >= FUZZY_MATCH_THRESHOLD

\* C25: in a search that matches no product code, the fuzzy strategy runs
\* (and, the cache being unbuilt, builds it) exactly when the substring
\* strategy found fewer than 3 products and none of them by its exact name;
\* what it adds are only products the substring strategy did not find that
\* score at least the threshold, no id is returned twice and no more than
\* MAX_SEARCH_RESULTS products are returned.
C25_FuzzyWhenFewMatches ==
    [][(/\ products' = products
        /\ stock' = stock
        /\ searchQuery' # searchQuery \/ searchResult' # searchResult
              \/ fuzzy_cache' # fuzzy_cache
        /\ strip(searchQuery') # <<>>
        /\ get_product_by_code(upper(strip(searchQuery'))) = NoRow)
       => /\ ~fuzzy_cache.built => (fuzzy_cache'.built <=> FuzzyCondition(searchQuery'))
          /\ FuzzyBounds(searchResult'.results, searchQuery')]_vars

\* ---------------------------------------------------------------------------
\* Claim about the range of the similarity scores
\* ---------------------------------------------------------------------------

\* The similarity scores (in hundredths) of the payloads a call returned.
ReturnedScores(results) ==
    {results[i].similarity_score :
        i \in {j \in 1..Len(results) : "error" \notin DOMAIN results[j]}}

\* C26: every similarity score find_smart_alternatives returns, and every
\* score held by the similarity cache, lies in [0,1] (0..100 hundredths),
\* whatever numeric score the ranking call replied with.
C26_ScoreInUnitInterval ==
    /\ \A sc \in similarity_cache : 0 <= sc.similarity_score /\ sc.similarity_score <= 100
    /\ (smartLast.called /\ ~smartLast.raised) =>
          \A v \in ReturnedScores(smartLast.results) : 0 <= v /\ v <= 100

\* ---------------------------------------------------------------------------
\* Claim about what the ranker returns with the stock filter on
\* ---------------------------------------------------------------------------

\* The payloads of a call that are not error payloads.
ReturnedProducts(results) ==
    {results[i] : i \in {j \in 1..Len(results) : "error" \notin DOMAIN results[j]}}

\* C27: a call of find_smart_alternatives with only_in_stock set that
\* returns, from the cache or from a recomputation, returns at most
\* max_results items, none of them the original product (none carries the id
\* the call was made for) and none with a net availability below
\* DEFAULT_MIN_STOCK.
C27_StockFilteredResults ==
    (smartLast.called /\ smartLast.only_in_stock /\ ~smartLast.raised) =>
        /\ Len(smartLast.results) <= smartLast.max_results
        /\ \A r \in ReturnedProducts(smartLast.results) :
              /\ r.id # smartLast.product_id
              /\ r.net_available >= DEFAULT_MIN_STOCK

\* ---------------------------------------------------------------------------
\* Claim about the roles of the conversation history across turns
\* ---------------------------------------------------------------------------

\* The history starts with a user message and no two neighbours share a role.
RolesAlternate(h) ==
    /\ h # <<>> => h[1].role = "user"
    /\ \A i \in 1..(Len(h) - 1) : h[i].role # h[i + 1].role

\* A history the next turn can be started on without putting its user
\* message right after another user-role message.
ReadyForTurn(h) ==
    RolesAlternate(h) /\ (h # <<>> => h[Len(h)].role = "assistant")

\* process_message has been left, by a return or by an exception.
TurnEnded == pc = "idle" /\ result.status # "none"

\* C28: a turn started on a history that is ready for it keeps the roles
\* alternating from the first user message on, and however the turn ends
\* (final answer, exhausted iterations, exception of the engine) the list
\* it leaves is ready for the next turn.
C28_HistoryAlternates ==
    ReadyForTurn(inputHistory) =>
        /\ RolesAlternate(history)
        /\ TurnEnded => ReadyForTurn(history)

\* ---------------------------------------------------------------------------
\* Claim about the products find_direct_equivalents returns
\* ---------------------------------------------------------------------------

\* C29: the list find_direct_equivalents returns holds no product twice and
\* does not hold the product the call was made for, whatever the catalog,
\* the equivalences and the stock rows (several locations included) are.
C29_EquivalentsOnce ==
    equivLast.called =>
        /\ \A i \in 1..Len(equivLast.results), j \in 1..Len(equivLast.results) :
              i # j => equivLast.results[i].id # equivLast.results[j].id
        /\ \A i \in 1..Len(equivLast.results) :
              equivLast.results[i].id # equivLast.product_id

\* ---------------------------------------------------------------------------
\* Sessions of one process sharing the fuzzy cache
\* ---------------------------------------------------------------------------
\* Every browser session runs its script in a thread of its own in the one
\* server process; product_service._fuzzy_cache is a module global, shared by
\* all of them, and nothing serialises _get_fuzzy_cache.  A session's record
\* holds the position of its search and its locals; "list" is the list object
\* the session created at line 107 and "bound" says whether the global
\* refers to it.  List objects are named after the session that created them.

\* A session that is not searching and has created no list.
IdleSession ==
    [pc |-> "idle", query |-> <<>>, rows |-> <<>>, i |-> 0, target |-> "none",
     ref |-> "none", j |-> 0, scored |-> {}, list |-> <<>>, bound |-> FALSE]

\* The sessions a process is explored with.
SessionNames == {"s1", "s2"}

\* The list objects _fuzzy_cache refers to (none: the global is None).
BoundLists(ss) == {n \in DOMAIN ss : ss[n].bound}

\* The name of the list object _fuzzy_cache refers to.
GlobalList(ss) == CHOOSE n \in BoundLists(ss) : TRUE

\* _fuzzy_cache as the sessions have left it.
CacheOf(ss) ==
    IF BoundLists(ss) = {} THEN NoCache
    ELSE [built |-> TRUE, items |-> ss[GlobalList(ss)].list]

SessionFrame ==
    UNCHANGED <<orchVars, storeVars, searchQuery, searchResult, attrVars, rankVars,
                equivLast, webLast, tapeLast, availLast, stockWrites, stockPreloaded,
                tapeStore, tapeFind>>

\* The step of one session: its record changes, the others' stay, and the
\* global is what the records say.
SessionStep(ss) ==
    /\ sess' = ss
    /\ fuzzy_cache' = CacheOf(ss)
    /\ SessionFrame

\* A browser connects: the server starts a session.
OpenSession(s) ==
    /\ s \notin DOMAIN sess
    /\ SessionStep([n \in DOMAIN sess \cup {s} |-> IF n = s THEN IdleSession ELSE sess[n]])

\* search up to the call of _get_fuzzy_cache (lines 28-56).
BeginSearch(s, query_arg) ==
    /\ s \in DOMAIN sess
    /\ sess[s].pc \in {"idle", "done"}
    /\ ReachesFuzzy(query_arg)
    /\ SessionStep([sess EXCEPT ![s] =
          [IdleSession EXCEPT !.pc = "test", !.query = query_arg,
                              !.list = sess[s].list, !.bound = sess[s].bound]])

\* Lines 105-106: the test of the global and, when it is None, the query.
TestCache(s) ==
    /\ s \in DOMAIN sess
    /\ sess[s].pc = "test"
    /\ SessionStep([sess EXCEPT ![s] =
          IF BoundLists(sess) = {}
          THEN [@ EXCEPT !.pc = "assign", !.rows = get_all_active_products]
          ELSE [@ EXCEPT !.pc = "return"]])

\* Line 107: _fuzzy_cache = [] binds the global to a new, empty list.
AssignEmpty(s) ==
    /\ s \in DOMAIN sess
    /\ sess[s].pc = "assign"
    /\ SessionStep([n \in DOMAIN sess |->
          IF n = s
          THEN [sess[n] EXCEPT !.pc = "load", !.i = 1, !.list = <<>>, !.bound = TRUE]
          ELSE [sess[n] EXCEPT !.bound = FALSE]])

\* Lines 108-110: the next row of the loop, and the read of the global that
\* the append of the row starts with.
LoadCache(s) ==
    /\ s \in DOMAIN sess
    /\ sess[s].pc = "load"
    /\ SessionStep([sess EXCEPT ![s] =
          IF sess[s].i > Len(sess[s].rows)
          THEN [@ EXCEPT !.pc = "return"]
          ELSE [@ EXCEPT !.pc = "append", !.target = GlobalList(sess)]])

\* Lines 110-118: the item is built and appended to the list that was read.
AppendItem(s) ==
    /\ s \in DOMAIN sess
    /\ sess[s].pc = "append"
    /\ SessionStep([n \in DOMAIN sess |->
          LET appended == IF n = sess[s].target
                          THEN [sess[n] EXCEPT !.list =
                                   Append(@, FuzzyItem(sess[s].rows[sess[s].i]))]
                          ELSE sess[n]
          IN  IF n = s THEN [appended EXCEPT !.pc = "load", !.i = @ + 1]
              ELSE appended])

\* Line 119 and line 56: return _fuzzy_cache; fuzzy_items is the list the
\* global refers to at that moment.
ReturnCache(s) ==
    /\ s \in DOMAIN sess
    /\ sess[s].pc = "return"
    /\ SessionStep([sess EXCEPT ![s] =
          [@ EXCEPT !.pc = "scan", !.ref = GlobalList(sess), !.j = 0, !.scored = {}]])

\* Lines 59-65: one pass of for item in fuzzy_items (the list iterator reads
\* the length of the list at every pass).
ScanItem(s) ==
    /\ s \in DOMAIN sess
    /\ sess[s].pc = "scan"
    /\ sess[s].j < Len(sess[sess[s].ref].list)
    /\ SessionStep([sess EXCEPT ![s] =
          [@ EXCEPT !.j = @ + 1,
                    !.scored = @ \cup {sess[sess[s].ref].list[sess[s].j + 1].id}]])

\* Line 59: the iterator is exhausted, the scoring of the search is over.
EndScan(s) ==
    /\ s \in DOMAIN sess
    /\ sess[s].pc = "scan"
    /\ sess[s].j >= Len(sess[sess[s].ref].list)
    /\ SessionStep([sess EXCEPT ![s] = [@ EXCEPT !.pc = "done"]])

\* The queries of the sessions.
SessionQueries == {<<"z">>, <<"o", "a", "c">>}

InitSessions == InitStock

NextSessions ==
    \/ \E s \in SessionNames : OpenSession(s)
    \/ \E s \in SessionNames, query_arg \in SessionQueries : BeginSearch(s, query_arg)
    \/ \E s \in SessionNames : TestCache(s)
    \/ \E s \in SessionNames : AssignEmpty(s)
    \/ \E s \in SessionNames : LoadCache(s)
    \/ \E s \in SessionNames : AppendItem(s)
    \/ \E s \in SessionNames : ReturnCache(s)
    \/ \E s \in SessionNames : ScanItem(s)
    \/ \E s \in SessionNames : EndScan(s)

SpecSessions == InitSessions /\ [][NextSessions]_vars

\* C30: every search of a session that went through the fuzzy strategy has
\* scored every active product: the list it iterated was complete, whatever
\* the other session was doing to the cache meanwhile.
C30_CompleteCacheScored ==
    \A s \in DOMAIN sess :
        sess[s].pc = "done" => sess[s].scored = {p.id : p \in products}

====
